---- MODULE Spec2Model ----
(***************************************************************************)
(* aw-analyzer: the tick engine (scheduler.ts), the JSON state store       *)
(* (utils/state-store.ts), the date utilities and the registered jobs      *)
(* (daily-summary, daily-report, continuous-work-alert).                   *)
(*                                                                         *)
(* Time is an integer count of abstract clock units.  now.getTime() is     *)
(* that count; a local day has HoursPerDay hours of MinutesPerHour units.  *)
(* State keys are tuples standing for the strings the code builds:         *)
(*   <<"cooldown", jobId>>        for  `cooldown:${jobId}`                 *)
(*   <<"daily", jobId, dateKey>>  for  `daily:${jobId}:${YYYY-MM-DD}`      *)
(* State values are tagged ([t |-> "number"|"string"|"undefined", v]) so   *)
(* that the typeof test of getTime is modelled.  cooldownKey values are    *)
(* non-empty strings, as every key built by cooldownKey() is.              *)
(* The notifier's record of deliveries is kept as far as the properties    *)
(* read it: per job, the deliveries made at the present now through the    *)
(* present store instance, and the jobs delivered on now's local date.     *)
(*                                                                         *)
(* Spec is the tick engine.  The components it calls are specified on      *)
(* their own, each over its own variables and with the other variables     *)
(* held still:                                                             *)
(*   StoreSpec   store instances of several processes on one state file    *)
(*   RunSpec     one run of the daily-report or continuous-work-alert job  *)
(*   CallSpec    one call of an uploader, provider, analyzer or chat        *)
(*               operation, request by request                             *)
(*   SendSpec    sendSlackMessage on one message, block validation first   *)
(*   WeekSpec    the weekly-report command, from the command line to the   *)
(*               upload, call by call                                      *)
(*   BinSpec     the JST hourly binner on one list of AFK events           *)
(***************************************************************************)
EXTENDS Integers, Sequences, FiniteSets, TLC

VARIABLES
    jobs,           \* the Job[] handed to runTick (fixed for a behaviour)
    now,            \* ctx.now of the current (or last) tick
    file,           \* content of the state file: key -> value
    cache,          \* the store instance's cache: [loaded, data]
    fresh,          \* ctx.state was created for the current tick
    pc,             \* position of runTick
    idx,            \* index of the job of the current loop iteration
    cur,            \* JobResult returned by the current job's run
    executedJobs,   \* runTick local
    notifiedJobs,   \* runTick local
    skippedJobs,    \* runTick local
    result,         \* TickResult of the current (or last) tick
    log,            \* logger lines of the current tick, in order
    sentHere,       \* notifier record: deliveries per job at this now
                    \* through this store instance
    sentToday,      \* notifier record: jobs delivered on now's local date
    ticks,          \* number of ticks started
    markedAtStart,  \* history: daily jobs whose marker was held at tick start
    lastSent,       \* history, per cooldownKey: now of the last delivery whose
                    \* result carried the key and a cooldownMs (-1: none)
    \* -- StoreSpec --
    dir,            \* the directory of the state file: path -> inode (0: none)
    inodes,         \* inode -> text of the file
    caches,         \* per process: the cache of its store instance
    spc,            \* per process: position inside the store call
    fd,             \* per process: inode Bun.write has open (0: none)
    call,           \* per process: the store call in progress or last returned
    nops,           \* number of writing store calls started
    hist,           \* history, per process: what the call in hand started from
    writer,         \* history: the process whose step last changed the file
    \* -- RunSpec --
    runIn,          \* the job, its config and what the outside world answers
    runOut,         \* what run returned, logged and left in the store
    \* -- CallSpec --
    callOp,         \* the operation called and its configuration
    callAt,         \* where the call stands: idle, the next endpoint, done
    reqs,           \* the requests issued so far, each with its answer
    callRet,        \* what the call gave back to its caller
    \* -- SendSpec --
    message,        \* the blocks of the message handed to sendSlackMessage
    sendOut,        \* its result and the number of webhook requests made
    \* -- WeekSpec --
    wkIn,           \* command line, environment and clock of the run
    wkAt,           \* where the command stands
    wkFx,           \* the calls that left the process so far, in order
    wkOut,          \* the CliResult
    \* -- BinSpec --
    binIn,          \* the AFK events and the target date keys
    binOut          \* the per-day hourly buckets returned

vars == <<jobs, now, file, cache, fresh, pc, idx, cur, executedJobs,
          notifiedJobs, skippedJobs, result, log, sentHere, sentToday, ticks,
          markedAtStart, lastSent>>

storeVars == <<dir, inodes, caches, spc, fd, call, nops, hist, writer>>

runVars == <<runIn, runOut>>

callVars == <<callOp, callAt, reqs, callRet>>

sendVars == <<message, sendOut>>

weekVars == <<wkIn, wkAt, wkFx, wkOut>>

binVars == <<binIn, binOut>>

\* the variables of the other components, which a tick leaves alone
outsideTick == <<storeVars, runVars, callVars, sendVars, weekVars, binVars>>

\* the variables of the other components, which a store call leaves alone
outsideStore == <<vars, runVars, callVars, sendVars, weekVars, binVars>>

\* the variables of the other components, which a job run leaves alone
outsideRun == <<vars, storeVars, callVars, sendVars, weekVars, binVars>>

\* the variables of the other components, which a service call leaves alone
outsideCall == <<vars, storeVars, runVars, sendVars, weekVars, binVars>>

\* the variables of the other components, which sending a message leaves alone
outsideSend == <<vars, storeVars, runVars, callVars, weekVars, binVars>>

\* the variables of the other components, which the weekly report leaves alone
outsideWeek == <<vars, storeVars, runVars, callVars, sendVars, binVars>>

\* the variables of the other components, which the binner leaves alone
outsideBin == <<vars, storeVars, runVars, callVars, sendVars, weekVars>>

-----------------------------------------------------------------------------
(* Bounds *)

NumJobs == 2            \* longest job list
MaxTicks == 2           \* ticks per behaviour
MaxNow == 4             \* latest clock value
HoursPerDay == 2        \* hours in a local day
MinutesPerHour == 2     \* clock units in an hour
CooldownMs == 2         \* the cooldownMs of the jobs that carry one

DayLen == HoursPerDay * MinutesPerHour
MaxDay == MaxNow \div DayLen

\* the elements of a sequence
Range(s) == {s[i] : i \in DOMAIN s}

-----------------------------------------------------------------------------
(* Date utilities *)

\* formatDateKey: the local calendar date of a Date, as a key
formatDateKey(date) == date \div DayLen

getHours(date) == (date % DayLen) \div MinutesPerHour

getMinutes(date) == date % MinutesPerHour

isAfterTime(t, hour, minute) ==
    \/ getHours(t) > hour
    \/ getHours(t) = hour /\ getMinutes(t) >= minute

dailyKey(jobId, date) == <<"daily", jobId, formatDateKey(date)>>

cooldownKey(jobId) == <<"cooldown", jobId>>

-----------------------------------------------------------------------------
(* State values and the state store *)

Undefined == [t |-> "undefined", v |-> 0]

Num(n) == [t |-> "number", v |-> n]

Str(s) == [t |-> "string", v |-> s]

\* mutant of shouldTriggerDaily: the marker is not consulted
shouldTriggerDaily_IgnoresMarker(t, targetHour, targetMinute, lastTriggeredDate) ==
    isAfterTime(t, targetHour, targetMinute)

\* shouldTriggerDaily: lastTriggeredDate is the value read from the store
shouldTriggerDaily(t, targetHour, targetMinute, lastTriggeredDate) ==
    IF lastTriggeredDate = Str(formatDateKey(t))
    THEN FALSE
    ELSE isAfterTime(t, targetHour, targetMinute)

GenericIds == {"a", "b"}

DailyIds == {"daily-summary", "daily-report"}

AlertId == "continuous-work-alert"

JobIds == GenericIds \cup DailyIds \cup {AlertId}

Keys == {cooldownKey(id) : id \in JobIds}
        \cup {<<"daily", id, d>> : id \in DailyIds, d \in 0..MaxDay}

EmptyData == [k \in Keys |-> Undefined]

NullCache == [loaded |-> FALSE, data |-> EmptyData]

\* mutant of load: the file is read again on every call
load_IgnoresCache(c, f) == [loaded |-> TRUE, data |-> f]

\* load(): the cache if there is one, else the file's content
load(c, f) == IF c.loaded THEN c ELSE [loaded |-> TRUE, data |-> f]

\* get(key)
get(c, f, key) == load(c, f).data[key]

\* getTime(key): the value if it is a number, else undefined
getTime(c, f, key) ==
    LET value == load(c, f).data[key]
    IN  IF value.t = "number" THEN value ELSE Undefined

\* mutant of setCache: the map is replaced by one holding only the new key
setCache_Replace(c, f, key, value) ==
    [loaded |-> TRUE, data |-> [EmptyData EXCEPT ![key] = value]]

\* set(key, value) / setTime(key, epochMs): the cache after the call
setCache(c, f, key, value) ==
    [loaded |-> TRUE, data |-> [load(c, f).data EXCEPT ![key] = value]]

\* save() -> writeFile: the file after the call; a failed write leaves it
writeFile(f, data, writeOk) == IF writeOk THEN data ELSE f

-----------------------------------------------------------------------------
(* The state store on a file system: several processes, each with its own *)
(* store instance, on one state file.  A text is a sequence of lines, the  *)
(* lines JSON.stringify(data, null, 2) writes for a flat object.           *)

StoreProcs == {"A", "B"}

MaxOps == 2             \* writing store calls per behaviour

FilePath == "state.json"

\* mutant of tempPath: the document is written in place
tempPath_InPlace(filePath) == filePath

\* `${filePath}.tmp`
tempPath(filePath) == filePath \o ".tmp"

Paths == {FilePath, tempPath(FilePath)}

\* inodes: the state file, the temp file, and one per process for a file
\* that lost its name while the process had it open
Inodes == 1..(2 + Cardinality(StoreProcs))

ProtoKey == "__proto__"

OwnKeys == {"k1", "k2"}

StoreKeys == OwnKeys \cup {ProtoKey}

\* the order in which JSON.stringify walks the own keys
KeyOrder == <<"k1", "k2">>

Null == [t |-> "null", v |-> 0]

\* a plain object; Obj(0) is Object.prototype
Obj(n) == [t |-> "object", v |-> n]

ObjectPrototype == Obj(0)

\* {}: no own property; under __proto__ the object's prototype is read
EmptyObject ==
    [k \in StoreKeys |-> IF k = ProtoKey THEN ObjectPrototype ELSE Undefined]

NoCache == [loaded |-> FALSE, data |-> EmptyObject]

\* data[key]
getProp(data, key) == data[key]

\* mutant of setProp: the map is replaced by one holding only the new key
setProp_Replace(data, key, value) ==
    IF key = ProtoKey THEN EmptyObject ELSE [EmptyObject EXCEPT ![key] = value]

\* data[key] = value: assigning to __proto__ sets the prototype when the
\* value is an object or null and does nothing otherwise
setProp(data, key, value) ==
    IF key = ProtoKey
    THEN IF value.t \in {"object", "null"}
         THEN [data EXCEPT ![key] = value]
         ELSE data
    ELSE [data EXCEPT ![key] = value]

JSONRepresentable(value) == value.t \in {"string", "number", "object", "null"}

\* the JSON token of a value
toJSON(value) ==
    CASE value.t = "string" -> [j |-> "string", n |-> value.v]
      [] value.t = "number" -> [j |-> "number", n |-> value.v]
      [] value.t = "object" -> [j |-> "object", n |-> value.v]
      [] OTHER -> [j |-> "null", n |-> 0]

\* the value of a JSON token
fromJSON(tok) ==
    CASE tok.j = "string" -> Str(tok.n)
      [] tok.j = "number" -> Num(tok.n)
      [] tok.j = "object" -> Obj(tok.n)
      [] OTHER -> Null

TextLine(kind, key, tok, comma) ==
    [kind |-> kind, key |-> key, j |-> tok.j, n |-> tok.n, comma |-> comma]

BraceLine(kind) == TextLine(kind, "", [j |-> "", n |-> 0], FALSE)

\* JSON.stringify(data, null, 2): the own enumerable properties whose value
\* is not undefined, one per line
JSONstringify(data) ==
    LET IsOwn(k) == data[k] # Undefined
        keys == SelectSeq(KeyOrder, IsOwn)
        n == Len(keys)
    IN  IF n = 0
        THEN <<BraceLine("{}")>>
        ELSE <<BraceLine("{")>>
             \o [i \in 1..n |-> TextLine("entry", keys[i], toJSON(data[keys[i]]), i < n)]
             \o <<BraceLine("}")>>

\* is the text one JSON object?
WellFormed(text) ==
    \/ text = <<BraceLine("{}")>>
    \/ /\ Len(text) >= 3
       /\ text[1] = BraceLine("{")
       /\ text[Len(text)] = BraceLine("}")
       /\ \A i \in 2..(Len(text) - 1) :
            /\ text[i].kind = "entry"
            /\ text[i].comma = (i < Len(text) - 1)

\* JSON.parse(text) of a well-formed text: of two entries with one key the
\* later one counts
JSONparse(text) ==
    [k \in StoreKeys |->
        IF k = ProtoKey THEN ObjectPrototype
        ELSE LET at == {i \in DOMAIN text : text[i].kind = "entry" /\ text[i].key = k}
             IN  IF at = {} THEN Undefined
                 ELSE LET last == CHOOSE i \in at : \A m \in at : m <= i
                      IN  fromJSON([j |-> text[last].j, n |-> text[last].n])]

\* the file under a path: does it exist, and its text
fileState(d, ino, path) ==
    [exists |-> d[path] # 0,
     text |-> IF d[path] # 0 THEN ino[d[path]] ELSE <<>>]

\* mutant of readFile: whatever entries the text holds are taken
readFile_TakesEntries(d, ino, filePath) ==
    LET f == fileState(d, ino, filePath)
    IN  IF ~f.exists THEN EmptyObject ELSE JSONparse(f.text)

\* readFile(filePath): a missing, empty or malformed file reads as {}
readFile(d, ino, filePath) ==
    LET f == fileState(d, ino, filePath)
    IN  IF ~f.exists THEN EmptyObject
        ELSE IF f.text = <<>> THEN EmptyObject
        ELSE IF ~WellFormed(f.text) THEN EmptyObject
        ELSE JSONparse(f.text)

\* bytes written at offset 0 over what the file holds
overwrite(old, text) ==
    IF Len(text) >= Len(old) THEN text
    ELSE text \o SubSeq(old, Len(text) + 1, Len(old))

\* an inode no path and no open handle refers to
IsFree(d, handles, i) ==
    /\ \A p \in DOMAIN d : d[p] # i
    /\ \A p \in DOMAIN handles : handles[p] # i

\* the text of every unreferenced inode is dropped
collect(d, handles, ino) ==
    [i \in Inodes |-> IF IsFree(d, handles, i) THEN <<>> ELSE ino[i]]

\* the values handed to set
SetValues == {Str(1), Obj(1), Undefined}

NoCall ==
    [op |-> "none", key |-> "", value |-> Undefined, ret |-> "none", fault |-> FALSE]

NoFile == [exists |-> FALSE, text |-> <<>>]

\* history of a writing call: alone = no other process was inside a writing
\* call while this one ran; writes = writing calls of this instance so far
\* (0, 1 or more); pre = the map the instance had loaded when its first
\* writing call began; before = the state file when the call in progress
\* began; afterClear = the instance's previous call was a clear() that
\* returned ok
NoHist ==
    [alone |-> TRUE, writes |-> 0, pre |-> EmptyObject, before |-> NoFile,
     afterClear |-> FALSE]

StoreInit ==
    /\ dir = [p \in Paths |-> 0]
    /\ inodes = [i \in Inodes |-> <<>>]
    /\ caches = [p \in StoreProcs |-> NoCache]
    /\ spc = [p \in StoreProcs |-> "idle"]
    /\ fd = [p \in StoreProcs |-> 0]
    /\ call = [p \in StoreProcs |-> NoCall]
    /\ nops = 0
    /\ hist = [p \in StoreProcs |-> NoHist]
    /\ writer = "none"

\* createStateStore(filePath): a new instance, its cache null
NewStore(p) ==
    /\ spc[p] = "idle"
    /\ caches[p].loaded
    /\ caches' = [caches EXCEPT ![p] = NoCache]
    /\ call' = [call EXCEPT ![p] = NoCall]
    /\ hist' = [hist EXCEPT ![p] = NoHist]
    /\ UNCHANGED <<dir, inodes, spc, fd, nops, writer>>
    /\ UNCHANGED outsideStore

\* the first get(key) of an instance: load() reads the file into the cache
Get(p) ==
    /\ spc[p] = "idle"
    /\ ~caches[p].loaded
    /\ caches' = [caches EXCEPT ![p] = load(caches[p], readFile(dir, inodes, FilePath))]
    /\ UNCHANGED <<dir, inodes, spc, fd, call, nops, hist, writer>>
    /\ UNCHANGED outsideStore

\* set / setTime / clear up to the call of save(): the cache is changed and
\* writeFile is entered
StartWrite(p, op, key, value, pre, data) ==
    /\ caches' = [caches EXCEPT ![p] = [loaded |-> TRUE, data |-> data]]
    /\ call' = [call EXCEPT ![p] =
                  [op |-> op, key |-> key, value |-> value, ret |-> "pending",
                   fault |-> FALSE]]
    /\ hist' = [q \in StoreProcs |->
                  IF q = p
                  THEN [alone |-> \A r \in StoreProcs \ {p} : spc[r] = "idle",
                        writes |-> IF hist[p].writes = 0 THEN 1 ELSE 2,
                        pre |-> IF hist[p].writes = 0 THEN pre ELSE EmptyObject,
                        before |-> fileState(dir, inodes, FilePath),
                        afterClear |-> call[p].op = "clear" /\ call[p].ret = "ok"]
                  ELSE IF spc[q] # "idle"
                  THEN [hist[q] EXCEPT !.alone = FALSE]
                  ELSE hist[q]]
    /\ spc' = [spc EXCEPT ![p] = "open"]
    /\ nops' = nops + 1
    /\ UNCHANGED <<dir, inodes, fd, writer>>
    /\ UNCHANGED outsideStore

\* set(key, value)
Set(p) ==
    /\ spc[p] = "idle"
    /\ nops < MaxOps
    /\ \E key \in StoreKeys, value \in SetValues :
        LET pre == load(caches[p], readFile(dir, inodes, FilePath)).data
        IN  StartWrite(p, "set", key, value, pre, setProp(pre, key, value))

\* setTime(key, epochMs)
SetTime(p) ==
    /\ spc[p] = "idle"
    /\ nops < MaxOps
    /\ \E key \in OwnKeys :
        LET pre == load(caches[p], readFile(dir, inodes, FilePath)).data
        IN  StartWrite(p, "setTime", key, Num(1), pre, setProp(pre, key, Num(1)))

\* clear()
Clear(p) ==
    /\ spc[p] = "idle"
    /\ nops < MaxOps
    /\ StartWrite(p, "clear", "", Undefined, caches[p].data, EmptyObject)

\* writeFile returns: ok, or write_error (fault = the failure was one of the
\* file system, not of a temp file that was gone)
Return(p, ret, fault) ==
    /\ call' = [call EXCEPT ![p].ret = ret, ![p].fault = fault]
    /\ hist' = [hist EXCEPT ![p].before = NoFile]
    /\ spc' = [spc EXCEPT ![p] = "idle"]

\* Bun.write(tempPath, text), first half: the temp file is created, or
\* truncated if there is one
OpenTemp(p) ==
    /\ spc[p] = "open"
    /\ \E ioOk \in BOOLEAN :
        IF ioOk
        THEN LET t == tempPath(FilePath)
                 free == {i \in Inodes : IsFree(dir, fd, i)}
                 i == IF dir[t] # 0 THEN dir[t]
                      ELSE CHOOSE m \in free : \A m2 \in free : m <= m2
             IN  /\ dir' = [dir EXCEPT ![t] = i]
                 /\ inodes' = [inodes EXCEPT ![i] = <<>>]
                 /\ fd' = [fd EXCEPT ![p] = i]
                 /\ writer' = IF dir[FilePath] = i /\ inodes[i] # <<>>
                              THEN p ELSE writer
                 /\ spc' = [spc EXCEPT ![p] = "write"]
                 /\ UNCHANGED <<call, hist>>
        ELSE /\ Return(p, "write_error", TRUE)
             /\ UNCHANGED <<dir, inodes, fd, writer>>
    /\ UNCHANGED <<caches, nops>>
    /\ UNCHANGED outsideStore

\* Bun.write(tempPath, text), second half: the text is written through the
\* open handle, from offset 0, and the handle is closed
WriteTemp(p) ==
    /\ spc[p] = "write"
    /\ LET i == fd[p]
           handles == [fd EXCEPT ![p] = 0]
           written == [inodes EXCEPT ![i] = overwrite(@, JSONstringify(caches[p].data))]
       IN  /\ inodes' = collect(dir, handles, written)
           /\ fd' = handles
           /\ writer' = IF dir[FilePath] = i THEN p ELSE writer
    /\ spc' = [spc EXCEPT ![p] = "rename"]
    /\ UNCHANGED <<dir, caches, call, nops, hist>>
    /\ UNCHANGED outsideStore

\* fs.rename(tempPath, filePath)
RenameTemp(p) ==
    /\ spc[p] = "rename"
    /\ \E ioOk \in BOOLEAN :
        LET t == tempPath(FilePath)
            renamed == IF t = FilePath THEN dir
                       ELSE [q \in Paths |-> IF q = FilePath THEN dir[t] ELSE 0]
        IN  IF ioOk /\ dir[t] # 0
            THEN /\ dir' = renamed
                 /\ inodes' = collect(renamed, fd, inodes)
                 /\ writer' = IF t = FilePath THEN writer ELSE p
                 /\ Return(p, "ok", FALSE)
            ELSE /\ Return(p, "write_error", dir[t] # 0)
                 /\ UNCHANGED <<dir, inodes, writer>>
    /\ UNCHANGED <<caches, fd, nops>>
    /\ UNCHANGED outsideStore

StoreNext ==
    \E p \in StoreProcs :
        \/ NewStore(p)
        \/ Get(p)
        \/ Set(p)
        \/ SetTime(p)
        \/ Clear(p)
        \/ OpenTemp(p)
        \/ WriteTemp(p)
        \/ RenameTemp(p)

-----------------------------------------------------------------------------
(* Jobs *)

NoKey == <<>>       \* cooldownKey absent
NoMs == -1          \* cooldownMs absent

NoResult == [type |-> "none", cooldownKey |-> NoKey, cooldownMs |-> NoMs]

NoNotify == [type |-> "no_notify", cooldownKey |-> NoKey, cooldownMs |-> NoMs]

Notify(key, ms) == [type |-> "notify", cooldownKey |-> key, cooldownMs |-> ms]

\* a job of the scheduler tests: constant shouldRun and run
GenericJob(id, sr, run, key, ms) ==
    [id |-> id, kind |-> "generic", shouldRun |-> sr, run |-> run,
     cooldownKey |-> key, cooldownMs |-> ms, targetHour |-> 0, targetMinute |-> 0]

createDailySummaryJob(targetHour, targetMinute) ==
    [id |-> "daily-summary", kind |-> "daily-summary", shouldRun |-> "code",
     run |-> "code", cooldownKey |-> NoKey, cooldownMs |-> NoMs,
     targetHour |-> targetHour, targetMinute |-> targetMinute]

createReportJob(targetHour, targetMinute) ==
    [id |-> "daily-report", kind |-> "daily-report", shouldRun |-> "code",
     run |-> "code", cooldownKey |-> NoKey, cooldownMs |-> NoMs,
     targetHour |-> targetHour, targetMinute |-> targetMinute]

createContinuousWorkAlertJob(ms) ==
    [id |-> AlertId, kind |-> "continuous-work-alert", shouldRun |-> "code",
     run |-> "code", cooldownKey |-> cooldownKey(AlertId), cooldownMs |-> ms,
     targetHour |-> 0, targetMinute |-> 0]

\* the jobs main.ts registers, and jobs of the scheduler tests whose results
\* carry the cooldown fields in each combination or whose callbacks throw
JobPool ==
    { GenericJob("a", "true", "notify", cooldownKey("a"), CooldownMs),
      GenericJob("a", "true", "notify", cooldownKey("a"), NoMs),
      GenericJob("a", "true", "notify", cooldownKey("a"), 0),
      GenericJob("a", "true", "notify", NoKey, NoMs),
      GenericJob("b", "throw", "notify", NoKey, NoMs),
      GenericJob("b", "true", "throw", NoKey, NoMs),
      GenericJob("b", "true", "notify", cooldownKey("a"), CooldownMs),
      createDailySummaryJob(1, 0),
      createReportJob(1, 1),
      createContinuousWorkAlertJob(CooldownMs) }

\* the cooldown keys the jobs of the pool carry
CooldownKeys == {cooldownKey("a"), cooldownKey(AlertId)}

\* job lists: job ids are unique within a list
JobLists ==
    { js \in UNION {[1..n -> JobPool] : n \in 1..NumJobs} :
        \A i, j \in DOMAIN js : i # j => js[i].id # js[j].id }

IsDaily(job) == job.kind \in {"daily-summary", "daily-report"}

\* job.shouldRun(ctx): "true", "false" or "throw"
jobShouldRun(job, c, f, t) ==
    IF job.kind = "generic" THEN job.shouldRun
    ELSE IF job.kind = "continuous-work-alert" THEN "true"
    ELSE IF shouldTriggerDaily(t, job.targetHour, job.targetMinute,
                               get(c, f, dailyKey(job.id, t)))
         THEN "true" ELSE "false"

\* what the outside world answers during one run: the metrics query, the
\* chat delivery and the state-file write
RunEnvs == [metrics : {"err", "below", "above"}, slackOk : BOOLEAN, writeOk : BOOLEAN]

\* the inputs a job's run reads
EnvsOf(job) ==
    CASE job.kind = "generic" ->
            {e \in RunEnvs : e.metrics = "above" /\ e.slackOk /\ e.writeOk}
      [] job.kind = "continuous-work-alert" ->
            {e \in RunEnvs : e.slackOk /\ e.writeOk}
      [] job.kind = "daily-summary" ->
            {e \in RunEnvs : e.metrics # "below" /\ e.slackOk}
      [] OTHER ->
            {e \in RunEnvs : e.metrics # "below"}

\* job.run(ctx): the JobResult, or "throw"
jobRunResult(job, env) ==
    CASE job.kind = "generic" ->
            IF job.run = "throw" THEN [NoResult EXCEPT !.type = "throw"]
            ELSE IF job.run = "no_notify" THEN NoNotify
            ELSE Notify(job.cooldownKey, job.cooldownMs)
      [] job.kind = "continuous-work-alert" ->
            IF env.metrics = "above"
            THEN Notify(cooldownKey(AlertId), job.cooldownMs)
            ELSE NoNotify
      [] OTHER -> Notify(NoKey, NoMs)

\* does run write the daily marker before returning?
runWritesMarker(job) == IsDaily(job)

-----------------------------------------------------------------------------
(* One run of a job, with the answers of the services it calls as inputs *)

MaxMinutes == 2         \* largest thresholdMinutes and cooldownMinutes

SecondsPerMinute == 60

MsPerSecond == 1000

\* thresholdMinutes * 60
thresholdSeconds(config) == config.thresholdMinutes * SecondsPerMinute

\* cooldownMinutes * 60 * 1000
cooldownMs(config) == config.cooldownMinutes * SecondsPerMinute * MsPerSecond

AlertConfigs ==
    [thresholdMinutes : 0..MaxMinutes, cooldownMinutes : 0..MaxMinutes]

\* getMetrics: err, or metrics with maxContinuousSeconds at, just below or
\* just above a whole minute
MetricsResults ==
    {[ok |-> FALSE, maxContinuousSeconds |-> 0]}
    \cup {[ok |-> TRUE, maxContinuousSeconds |-> m * SecondsPerMinute + d] :
            m \in 0..MaxMinutes, d \in 0..1}
    \cup {[ok |-> TRUE, maxContinuousSeconds |-> m * SecondsPerMinute - 1] :
            m \in 1..MaxMinutes}

\* mutant of alertRun: the threshold itself does not alert
alertRun_Inclusive(config, metricsResult) ==
    IF ~metricsResult.ok THEN NoNotify
    ELSE IF metricsResult.maxContinuousSeconds <= thresholdSeconds(config)
    THEN NoNotify
    ELSE Notify(cooldownKey(AlertId), cooldownMs(config))

\* continuous-work-alert: run(ctx)
alertRun(config, metricsResult) ==
    IF ~metricsResult.ok THEN NoNotify
    ELSE IF metricsResult.maxContinuousSeconds < thresholdSeconds(config)
    THEN NoNotify
    ELSE Notify(cooldownKey(AlertId), cooldownMs(config))

\* what the services answer during one run of the daily-report job
ReportEnvs ==
    [now : 0..MaxNow, metricsOk : BOOLEAN, apiKey : BOOLEAN, aiOk : BOOLEAN,
     slackOk : BOOLEAN, writeOk : BOOLEAN]

NoOut == [result |-> NoResult, log |-> <<>>, cache |-> NullCache, file |-> EmptyData]

\* mutant of reportRun: a failed chat delivery ends the run
reportRun_SlackFatal(env) ==
    IF env.slackOk
    THEN LET c == setCache(NullCache, EmptyData, dailyKey("daily-report", env.now),
                           Str(formatDateKey(env.now)))
         IN  [result |-> Notify(NoKey, NoMs), log |-> <<"Generating daily report">>,
              cache |-> c, file |-> writeFile(EmptyData, c.data, env.writeOk)]
    ELSE [NoOut EXCEPT !.result = [NoResult EXCEPT !.type = "throw"],
                       !.log = <<"Generating daily report", "Slack send failed">>]

\* daily-report: run(ctx) on an empty store
reportRun(env) ==
    LET c == setCache(NullCache, EmptyData, dailyKey("daily-report", env.now),
                      Str(formatDateKey(env.now)))
    IN  [result |-> Notify(NoKey, NoMs),
         log |-> <<"Generating daily report">>
                 \o (IF env.apiKey /\ ~env.aiOk
                     THEN <<"AI analysis failed, using fallback">> ELSE <<>>)
                 \o (IF env.slackOk THEN <<>> ELSE <<"Slack send failed">>),
         cache |-> c,
         file |-> writeFile(EmptyData, c.data, env.writeOk)]

RunInputs ==
    {[kind |-> "daily-report", config |-> [thresholdMinutes |-> 0, cooldownMinutes |-> 0],
      metrics |-> [ok |-> e.metricsOk, maxContinuousSeconds |-> 0], env |-> e] :
        e \in ReportEnvs}
    \cup
    {[kind |-> "continuous-work-alert", config |-> c, metrics |-> m,
      env |-> [now |-> 0, metricsOk |-> m.ok, apiKey |-> FALSE, aiOk |-> FALSE,
               slackOk |-> TRUE, writeOk |-> TRUE]] :
        c \in AlertConfigs, m \in MetricsResults}

RunInit ==
    /\ runIn \in RunInputs
    /\ runOut = NoOut

\* no job run under way
RunParked ==
    /\ runIn = [kind |-> "none", config |-> [thresholdMinutes |-> 0, cooldownMinutes |-> 0],
                metrics |-> [ok |-> FALSE, maxContinuousSeconds |-> 0],
                env |-> [now |-> 0, metricsOk |-> FALSE, apiKey |-> FALSE,
                         aiOk |-> FALSE, slackOk |-> FALSE, writeOk |-> FALSE]]
    /\ runOut = NoOut

RunReport ==
    /\ runIn.kind = "daily-report"
    /\ runOut = NoOut
    /\ runOut' = reportRun(runIn.env)
    /\ UNCHANGED runIn
    /\ UNCHANGED outsideRun

RunAlert ==
    /\ runIn.kind = "continuous-work-alert"
    /\ runOut = NoOut
    /\ runOut' = [NoOut EXCEPT !.result = alertRun(runIn.config, runIn.metrics),
                               !.log = <<"Checking continuous work time">>]
    /\ UNCHANGED runIn
    /\ UNCHANGED outsideRun

RunNext == RunReport \/ RunAlert

-----------------------------------------------------------------------------
(* Calls of the uploader, the provider, the analyzer and the chat client *)

NumFiles == 2           \* distinct file ids and upload URLs the server hands out

\* what can come back from one request:
\*   reject       the request promise rejects (no response)
\*   http_error   a response with a non-2xx status
\*   undecodable  a 2xx response whose body is not JSON
\*   api_error    a 2xx JSON body with ok: false
\*   ok           a 2xx JSON body with ok: true; upload_url, file_id (0 when
\*                missing) and link (permalink_public present) are its fields
Failure(kind) == [kind |-> kind, upload_url |-> 0, file_id |-> 0, link |-> FALSE]

Answers(url) ==
    IF url = "files.getUploadURLExternal"
    THEN {Failure(k) : k \in {"reject", "http_error", "undecodable", "api_error"}}
         \cup {[kind |-> "ok", upload_url |-> u, file_id |-> f, link |-> FALSE] :
                 u \in 0..NumFiles, f \in 0..NumFiles}
    ELSE IF url \in {"upload_url", "webhook"}
    THEN {Failure("reject"), Failure("http_error"), [Failure("ok") EXCEPT !.link = TRUE]}
    ELSE IF url \in {"buckets", "query"}
    THEN {Failure(k) : k \in {"reject", "http_error", "undecodable"}}
         \cup {[Failure("ok") EXCEPT !.link = l] : l \in BOOLEAN}
    ELSE {Failure(k) : k \in {"reject", "http_error", "undecodable", "api_error"}}
         \cup {[Failure("ok") EXCEPT !.link = l] : l \in BOOLEAN}

pending == [type |-> "pending", error |-> "none", fileId |-> 0, link |-> FALSE]

\* ok(value): fileId and link are 0 and FALSE where the value has none
ok(fileId, link) == [type |-> "ok", error |-> "none", fileId |-> fileId, link |-> link]

err(type) == [type |-> "err", error |-> type, fileId |-> 0, link |-> FALSE]

\* the call ends by an exception instead of a Result
thrown == [type |-> "throw", error |-> "none", fileId |-> 0, link |-> FALSE]

NoOp == [name |-> "none", token |-> FALSE, fileId |-> 0]

CallParked ==
    /\ callOp = NoOp
    /\ callAt = "idle"
    /\ reqs = <<>>
    /\ callRet = pending

\* fetchFn(url, ...) with the given file id or upload URL, answered by a
request(url, target, a) ==
    /\ reqs' = Append(reqs, [url |-> url, target |-> target, answer |-> a])
    /\ UNCHANGED callOp
    /\ UNCHANGED outsideCall

finish(r) == callAt' = "done" /\ callRet' = r

next(url) == callAt' = url /\ callRet' = callRet

\* the operation is called: its checks ahead of the first request
Call ==
    /\ callAt = "idle"
    /\ \E o \in [name : {"uploadSlackFile", "shareSlackFilePublicly", "getMetrics",
                         "generateAnalysis", "sendSlackMessage"},
                 token : BOOLEAN, fileId : 0..NumFiles] :
        /\ o.fileId # 0 => o.name = "shareSlackFilePublicly"
        /\ ~o.token => o.name \notin {"getMetrics", "sendSlackMessage"}
        /\ callOp' = o
        /\ IF o.name = "uploadSlackFile"
           THEN IF ~o.token THEN finish(err("config_error"))
                ELSE next("files.getUploadURLExternal")
           ELSE IF o.name = "shareSlackFilePublicly"
           THEN IF ~o.token \/ o.fileId = 0 THEN finish(err("config_error"))
                ELSE next("files.sharedPublicURL")
           ELSE IF o.name = "getMetrics" THEN next("buckets")
           ELSE IF o.name = "generateAnalysis"
           THEN IF ~o.token THEN finish(err("config_error"))
                ELSE next("chat.completions")
           ELSE next("webhook")
    /\ UNCHANGED reqs
    /\ UNCHANGED outsideCall

\* uploadSlackFile, 1) get upload URL
GetUploadURLExternal ==
    /\ callAt = "files.getUploadURLExternal"
    /\ \E a \in Answers(callAt) :
        /\ request(callAt, 0, a)
        /\ IF a.kind \in {"reject", "undecodable"} THEN finish(thrown)
           ELSE IF a.kind = "http_error" THEN finish(err("http_error"))
           ELSE IF a.kind = "api_error" THEN finish(err("api_error"))
           ELSE IF a.upload_url = 0 \/ a.file_id = 0 THEN finish(err("api_error"))
           ELSE next("upload_url")

\* mutant of UploadBytes: the status of the upload response is not looked callAt
UploadBytes_IgnoresStatus ==
    /\ callAt = "upload_url"
    /\ \E a \in Answers(callAt) :
        /\ request(callAt, reqs[1].answer.upload_url, a)
        /\ IF a.kind = "reject" THEN finish(thrown)
           ELSE next("files.completeUploadExternal")

\* uploadSlackFile, 2) upload the bytes to the returned upload URL
UploadBytes ==
    /\ callAt = "upload_url"
    /\ \E a \in Answers(callAt) :
        /\ request(callAt, reqs[1].answer.upload_url, a)
        /\ IF a.kind = "reject" THEN finish(thrown)
           ELSE IF a.kind = "http_error" THEN finish(err("http_error"))
           ELSE next("files.completeUploadExternal")

\* uploadSlackFile, 3) finalize the upload
CompleteUploadExternal ==
    /\ callAt = "files.completeUploadExternal"
    /\ \E a \in Answers(callAt) :
        /\ request(callAt, reqs[1].answer.file_id, a)
        /\ IF a.kind \in {"reject", "undecodable"} THEN finish(thrown)
           ELSE IF a.kind = "http_error" THEN finish(err("http_error"))
           ELSE IF a.kind = "api_error" THEN finish(err("api_error"))
           ELSE finish(ok(reqs[1].answer.file_id, a.link))

\* shareSlackFilePublicly: first, try to share publicly
SharedPublicURL ==
    /\ callAt = "files.sharedPublicURL"
    /\ \E a \in Answers(callAt) :
        /\ request(callAt, callOp.fileId, a)
        /\ IF a.kind \in {"reject", "undecodable"} THEN finish(thrown)
           ELSE IF a.kind = "ok" /\ a.link THEN finish(ok(0, TRUE))
           ELSE next("files.info")

\* mutant of FilesInfo: a failed files.info is handed on as an error
FilesInfo_SurfacesErrors ==
    /\ callAt = "files.info"
    /\ \E a \in Answers(callAt) :
        /\ request(callAt, callOp.fileId, a)
        /\ IF a.kind \in {"reject", "undecodable"} THEN finish(thrown)
           ELSE IF a.kind = "http_error" THEN finish(err("http_error"))
           ELSE IF a.kind = "api_error" THEN finish(err("api_error"))
           ELSE finish(ok(0, a.link))

\* shareSlackFilePublicly: if sharing failed, try to get file info
FilesInfo ==
    /\ callAt = "files.info"
    /\ \E a \in Answers(callAt) :
        /\ request(callAt, callOp.fileId, a)
        /\ IF a.kind \in {"reject", "undecodable"} THEN finish(thrown)
           ELSE IF a.kind = "http_error" THEN finish(ok(0, FALSE))
           ELSE IF a.kind = "api_error" THEN finish(ok(0, FALSE))
           ELSE finish(ok(0, a.link))

\* getMetrics: fetchBuckets; link stands for both watcher buckets being listed
FetchBuckets ==
    /\ callAt = "buckets"
    /\ \E a \in Answers(callAt) :
        /\ request(callAt, 0, a)
        /\ IF a.kind # "ok" THEN finish(err("connection_error"))
           ELSE IF ~a.link THEN finish(err("connection_error"))
           ELSE next("query")

\* getMetrics: runQuery and parseMetricsResponse; link stands for a body the
\* parser accepts
RunQuery ==
    /\ callAt = "query"
    /\ \E a \in Answers(callAt) :
        /\ request(callAt, 0, a)
        /\ IF a.kind # "ok" THEN finish(err("query_error"))
           ELSE IF ~a.link THEN finish(err("parse_error"))
           ELSE finish(ok(0, FALSE))

\* generateAnalysis: the completion request; undecodable is content that is
\* not JSON, link stands for content of the expected structure
ChatCompletions ==
    /\ callAt = "chat.completions"
    /\ \E a \in Answers(callAt) :
        /\ request(callAt, 0, a)
        /\ IF a.kind = "undecodable" THEN finish(err("parse_error"))
           ELSE IF a.kind # "ok" THEN finish(err("api_error"))
           ELSE IF ~a.link THEN finish(err("parse_error"))
           ELSE finish(ok(0, FALSE))

\* sendSlackMessage: webhook.send of a message without invalid blocks
WebhookSend ==
    /\ callAt = "webhook"
    /\ \E a \in Answers(callAt) :
        /\ request(callAt, 0, a)
        /\ IF a.kind # "ok" THEN finish(err("slack_error"))
           ELSE finish(ok(0, FALSE))

CallNext ==
    \/ Call
    \/ GetUploadURLExternal
    \/ UploadBytes
    \/ CompleteUploadExternal
    \/ SharedPublicURL
    \/ FilesInfo
    \/ FetchBuckets
    \/ RunQuery
    \/ ChatCompletions
    \/ WebhookSend

-----------------------------------------------------------------------------
(* Block validation and transmission *)

MaxShown == 2           \* blocks of a message that are not padding

MaxBlocks == 50

MaxFields == 10

MaxFieldText == 2000

MaxSectionText == 3000

MaxHeaderText == 150

MaxImageUrl == 3000

MaxAltText == 2000

MaxTitleText == 2000

\* a block, its strings given by their lengths (0: absent or empty);
\* image_url also by whether it starts with http:// or https://, slack_file
\* by being absent, an empty object, or an object with an id
Block(type) ==
    [type |-> type, text |-> 0, hasFields |-> FALSE, fields |-> <<>>,
     image_url |-> [len |-> 0, http |-> FALSE], slack_file |-> "absent",
     alt_text |-> 0, title |-> 0]

Fields(n, len) == [j \in 1..n |-> len]

Blocks ==
    {Block("divider")}
    \cup {[Block("header") EXCEPT !.text = n] : n \in {MaxHeaderText, MaxHeaderText + 1}}
    \cup {[Block("section") EXCEPT !.text = n] : n \in {MaxSectionText, MaxSectionText + 1}}
    \cup {[Block("section") EXCEPT !.hasFields = TRUE, !.fields = f] :
            f \in {<<>>, <<MaxFieldText>>, <<MaxFieldText, MaxFieldText + 1>>,
                   Fields(MaxFields, 1), Fields(MaxFields + 1, 1)}}
    \cup {[Block("image") EXCEPT !.image_url = u, !.alt_text = 1] :
            u \in {[len |-> 0, http |-> FALSE], [len |-> MaxImageUrl, http |-> TRUE],
                   [len |-> MaxImageUrl + 1, http |-> TRUE], [len |-> 6, http |-> FALSE]}}
    \cup {[Block("image") EXCEPT !.slack_file = f, !.alt_text = 1] : f \in {"empty", "id"}}
    \cup {[Block("image") EXCEPT !.image_url = [len |-> 8, http |-> TRUE],
                                 !.slack_file = "id", !.alt_text = 1]}
    \cup {[Block("image") EXCEPT !.image_url = [len |-> 8, http |-> TRUE],
                                 !.alt_text = MaxAltText + 1, !.title = MaxTitleText + 1]}

\* shown, filled up with dividers to n blocks
pad(shown, n) ==
    shown \o [i \in 1..(n - Len(shown)) |-> Block("divider")]

Messages ==
    {pad(shown, n) :
        shown \in UNION {[1..k -> Blocks] : k \in 1..MaxShown},
        n \in {MaxShown, MaxBlocks, MaxBlocks + 1}}

\* one entry of errors: block i (-1: the message), field j (-1: the block)
Violation(i, j, kind) == [block |-> i, field |-> j, kind |-> kind]

errIf(cond, e) == IF cond THEN <<e>> ELSE <<>>

\* the body of validateBlocks' loop for blocks[i]
blockErrors(i, block) ==
    (IF block.type = "section" /\ block.hasFields
     THEN LET n == Len(block.fields)
              TooLong(j) == block.fields[j] > MaxFieldText
              long == SelectSeq([j \in 1..n |-> j], TooLong)
          IN  errIf(n = 0 \/ n > MaxFields, Violation(i, -1, "field_count"))
              \o [k \in 1..Len(long) |-> Violation(i, long[k] - 1, "field_text")]
              \o errIf(n > 0 /\ n % 2 # 0, Violation(i, -1, "odd_field_count"))
     ELSE <<>>)
    \o errIf(block.type = "section" /\ block.text > MaxSectionText,
             Violation(i, -1, "section_text"))
    \o errIf(block.type = "header" /\ block.text > MaxHeaderText,
             Violation(i, -1, "header_text"))
    \o (IF block.type = "image"
        THEN errIf(block.image_url.len = 0 /\ block.slack_file = "absent",
                   Violation(i, -1, "image_source"))
             \o errIf(block.image_url.len > MaxImageUrl, Violation(i, -1, "image_url_length"))
             \o errIf(block.alt_text > MaxAltText, Violation(i, -1, "alt_text"))
             \o errIf(block.title > MaxTitleText, Violation(i, -1, "title"))
             \o errIf(block.image_url.len > 0 /\ ~block.image_url.http,
                      Violation(i, -1, "image_url_scheme"))
             \o errIf(block.slack_file = "empty", Violation(i, -1, "slack_file"))
        ELSE <<>>)

RECURSIVE errorsFrom(_, _)
errorsFrom(blocks, i) ==
    IF i > Len(blocks) THEN <<>>
    ELSE blockErrors(i - 1, blocks[i]) \o errorsFrom(blocks, i + 1)

\* validateBlocks(blocks).errors
validateBlocks(blocks) ==
    errIf(Len(blocks) > MaxBlocks, Violation(-1, -1, "too_many_blocks"))
    \o errorsFrom(blocks, 1)

NotSent == [type |-> "pending", errors |-> <<>>, requests |-> 0]

\* sendSlackMessage(config, {text, blocks}); sendOk: webhook.send resolves.
\* errors is the list joined into the message of the error returned
sendSlackMessage(blocks, sendOk) ==
    LET errors == validateBlocks(blocks)
    IN  IF errors # <<>>
        THEN [type |-> "slack_error", errors |-> errors, requests |-> 0]
        ELSE IF sendOk THEN [type |-> "ok", errors |-> <<>>, requests |-> 1]
        ELSE [type |-> "slack_error", errors |-> <<>>, requests |-> 1]

SendParked ==
    /\ message = <<>>
    /\ sendOut = NotSent

SendSlackMessage ==
    /\ sendOut = NotSent
    /\ message # <<>>
    /\ \E sendOk \in BOOLEAN : sendOut' = sendSlackMessage(message, sendOk)
    /\ UNCHANGED message
    /\ UNCHANGED outsideSend

-----------------------------------------------------------------------------
(* The weekly-report command *)

MaxDays == 2            \* largest --days value inside the clamp

MinWindow == 1

MaxWindow == 31

\* JST_OFFSET_MS: JST runs one hour of the model's short day ahead of UTC
JST_OFFSET_MS == MinutesPerHour

\* clampDays (days is an integer here)
clampDays(days) ==
    IF days < MinWindow THEN MinWindow
    ELSE IF days > MaxWindow THEN MaxWindow
    ELSE days

\* buildDateList: now - i days for i = 0..n-1 (local time), then reversed
buildDateList(t, days) ==
    LET n == clampDays(days)
    IN  [k \in 1..n |-> t - (n - k) * DayLen]

dateKeyFromJstMs(jstMs) == jstMs \div DayLen

startOfJstDayMsFromDateKey(dateKey) == dateKey * DayLen - JST_OFFSET_MS

\* buildJstDateKeys; nowUtcMs is now.getTime()
buildJstDateKeys(nowUtcMs, days) ==
    LET n == clampDays(days)
        nowJstDateKey == dateKeyFromJstMs(nowUtcMs + JST_OFFSET_MS)
        yesterdayStartUtcMs == startOfJstDayMsFromDateKey(nowJstDateKey) - DayLen
    IN  [k \in 1..n |->
            dateKeyFromJstMs(yesterdayStartUtcMs - (n - k) * DayLen + JST_OFFSET_MS)]

\* the command line, the environment and the clock of one weekly-report run;
\* tz is how far the local clock runs ahead of UTC, now is local time
WeekInputs ==
    [now : ((MaxWindow + 1) * DayLen)..((MaxWindow + 3) * DayLen - 1),
     tz : {0, JST_OFFSET_MS},
     days : (0..MaxDays) \cup {MaxWindow + 1},
     webhookUrl : BOOLEAN, botToken : BOOLEAN, channelId : BOOLEAN, apiKey : BOOLEAN]

NoWeek ==
    [now |-> 0, tz |-> 0, days |-> 0, webhookUrl |-> FALSE, botToken |-> FALSE,
     channelId |-> FALSE, apiKey |-> FALSE]

\* CliResult of handleWeeklyReport: cause is the failure behind it
NoExit == [type |-> "pending", cause |-> "none", exitCode |-> -1]

Exit(cause) ==
    IF cause = "none" THEN [type |-> "ok", cause |-> cause, exitCode |-> 0]
    ELSE [type |-> "error", cause |-> cause, exitCode |-> 1]

WeekParked ==
    /\ wkIn = NoWeek
    /\ wkAt = "idle"
    /\ wkFx = <<>>
    /\ wkOut = NoExit

\* one call that leaves the process: kind, for a per-day fetch the date,
\* and whether its Result is ok
effect(kind, date, isOk) ==
    /\ wkFx' = Append(wkFx, [kind |-> kind, date |-> date, ok |-> isOk])
    /\ UNCHANGED wkIn
    /\ UNCHANGED outsideWeek

leave(cause) == wkAt' = "done" /\ wkOut' = Exit(cause)

goto(step) == wkAt' = step /\ wkOut' = wkOut

\* mutant of WeeklyStart: the token and channel are looked at after the
\* first fetch
WeeklyStart_ChecksLate ==
    /\ wkAt = "idle"
    /\ \E w \in WeekInputs :
        /\ wkIn' = w
        /\ IF ~w.webhookUrl
           THEN leave("webhook_missing") /\ wkFx' = wkFx
           ELSE IF ~w.botToken \/ ~w.channelId
           THEN /\ leave("config_error")
                /\ wkFx' = <<[kind |-> "afk_metrics",
                              date |-> formatDateKey(buildDateList(w.now, w.days)[1]),
                              ok |-> TRUE]>>
           ELSE goto("metrics") /\ wkFx' = wkFx
    /\ UNCHANGED outsideWeek

\* handleWeeklyReport up to the call of runWeeklyLifestyleCommand, and the
\* command's own configuration checks
WeeklyStart ==
    /\ wkAt = "idle"
    /\ \E w \in WeekInputs :
        /\ wkIn' = w
        /\ IF ~w.webhookUrl THEN leave("webhook_missing")
           ELSE IF ~w.botToken THEN leave("config_error")
           ELSE IF ~w.channelId THEN leave("config_error")
           ELSE goto("metrics")
    /\ wkFx' = wkFx
    /\ UNCHANGED outsideWeek

\* one iteration of the loop over dates: fetcher(awConfig, {start, end})
FetchDay ==
    /\ wkAt = "metrics"
    /\ LET dates == buildDateList(wkIn.now, wkIn.days)
           i == Len(wkFx) + 1
       IN  \E fetched \in BOOLEAN :
                /\ effect("afk_metrics", formatDateKey(dates[i]), fetched)
                /\ IF ~fetched THEN leave("aw_error")
                   ELSE IF i = Len(dates) THEN goto("events")
                   ELSE goto("metrics")

\* mutant of FetchEvents: a failed events fetch leaves the heatmap empty
FetchEvents_FailureTolerated ==
    /\ wkAt = "events"
    /\ \E fetched \in BOOLEAN : effect("afk_events", -1, fetched)
    /\ goto("projects")

\* eventsFetcher(awConfig, {start: periodStart, end: periodEnd})
FetchEvents ==
    /\ wkAt = "events"
    /\ \E fetched \in BOOLEAN :
        /\ effect("afk_events", -1, fetched)
        /\ IF fetched THEN goto("projects") ELSE leave("aw_error")

\* projectsFetcher(...): a failure leaves the ranking empty
FetchProjects ==
    /\ wkAt = "projects"
    /\ \E fetched \in BOOLEAN : effect("editor_projects", -1, fetched)
    /\ IF wkIn.apiKey THEN goto("ai") ELSE goto("upload")

\* weeklyAi(...), called when an API key is configured; the fallback
\* analysis stands when it fails
WeeklyAi ==
    /\ wkAt = "ai"
    /\ \E answered \in BOOLEAN : effect("weekly_ai", -1, answered)
    /\ goto("upload")

\* uploader(uploadConfig, {...png...})
UploadGraph ==
    /\ wkAt = "upload"
    /\ \E uploaded \in BOOLEAN :
        /\ effect("upload", -1, uploaded)
        /\ IF uploaded THEN leave("none") ELSE leave("slack_upload_error")

WeekNext ==
    \/ WeeklyStart
    \/ FetchDay
    \/ FetchEvents
    \/ FetchProjects
    \/ WeeklyAi
    \/ UploadGraph

-----------------------------------------------------------------------------
(* The JST hourly binner *)

MaxEvents == 2          \* longest list of AFK events

\* AfkEvent: timestamp (UTC, as Date.parse gives it), duration, data.status.
\* Starts lie at the beginning of the range, just before and at a JST
\* midnight's UTC neighbourhood and late in the second day; durations reach
\* from nothing to more than a day, one of them negative
AfkEvents ==
    [status : {"afk", "not-afk"},
     start : {0, DayLen - JST_OFFSET_MS - 1, DayLen, 2 * DayLen - 1},
     duration : {0, 1, MinutesPerHour + 1, DayLen + 1}]
    \cup {[status |-> "unknown", start |-> 0, duration |-> 1],
          [status |-> "afk", start |-> DayLen, duration |-> -1]}

\* target date keys: any dates in ascending order
BinInputs ==
    [events : UNION {[1..k -> AfkEvents] : k \in 0..MaxEvents},
     targetDateKeys : {<<>>, <<0>>, <<1>>, <<0, 1>>, <<1, 2>>, <<0, 2>>}]

clampNonNegative(n) == IF n < 0 THEN 0 ELSE n

\* newDayBuckets; hours[h + 1] is the code's hours[h]
newDayBuckets(date) ==
    [date |-> date,
     hours |-> [h \in 1..HoursPerDay |-> [activeSeconds |-> 0, afkSeconds |-> 0]]]

\* mutant of addSeconds: away time is dropped
addSeconds_ActiveOnly(bucket, status, seconds) ==
    IF status = "not-afk"
    THEN [bucket EXCEPT !.activeSeconds = @ + clampNonNegative(seconds)]
    ELSE bucket

addSeconds(bucket, status, seconds) ==
    IF status = "not-afk"
    THEN [bucket EXCEPT !.activeSeconds = @ + clampNonNegative(seconds)]
    ELSE IF status = "afk"
    THEN [bucket EXCEPT !.afkSeconds = @ + clampNonNegative(seconds)]
    ELSE bucket

\* the while loop of splitIntoHourlyJst; bucketsByDate is the Map, a
\* function on the date keys it holds.  A second is one clock unit
RECURSIVE splitLoop(_, _, _, _)
splitLoop(bucketsByDate, status, curJstMs, endJstMs) ==
    IF ~(curJstMs < endJstMs) THEN bucketsByDate
    ELSE LET dateKey == dateKeyFromJstMs(curJstMs)
             hour == (curJstMs % DayLen) \div MinutesPerHour
             nextHourJstMs == dateKey * DayLen + (hour + 1) * MinutesPerHour
             segEndJstMs == IF endJstMs < nextHourJstMs THEN endJstMs ELSE nextHourJstMs
             seconds == segEndJstMs - curJstMs
             daily == IF dateKey \in DOMAIN bucketsByDate THEN bucketsByDate[dateKey]
                      ELSE newDayBuckets(dateKey)
             filled == [daily EXCEPT !.hours[hour + 1] = addSeconds(@, status, seconds)]
         IN  splitLoop([k \in DOMAIN bucketsByDate \cup {dateKey} |->
                           IF k = dateKey THEN filled ELSE bucketsByDate[k]],
                       status, segEndJstMs, endJstMs)

splitIntoHourlyJst(bucketsByDate, status, startUtcMs, endUtcMs) ==
    LET startMs == IF startUtcMs < endUtcMs THEN startUtcMs ELSE endUtcMs
        endMs == IF startUtcMs < endUtcMs THEN endUtcMs ELSE startUtcMs
    IN  IF endMs <= startMs THEN bucketsByDate
        ELSE splitLoop(bucketsByDate, status, startMs + JST_OFFSET_MS,
                       endMs + JST_OFFSET_MS)

\* the loop over events of binAfkEventsToJstHourly, from events[i] on
RECURSIVE binFrom(_, _, _)
binFrom(bucketsByDate, events, i) ==
    IF i > Len(events) THEN bucketsByDate
    ELSE LET e == events[i]
         IN  IF e.status \notin {"afk", "not-afk"}
             THEN binFrom(bucketsByDate, events, i + 1)
             ELSE binFrom(splitIntoHourlyJst(bucketsByDate, e.status, e.start,
                                             e.start + clampNonNegative(e.duration)),
                          events, i + 1)

binAfkEventsToJstHourly(events, targetDateKeys) ==
    LET bucketsByDate ==
            binFrom([d \in Range(targetDateKeys) |-> newDayBuckets(d)], events, 1)
    IN  [j \in 1..Len(targetDateKeys) |-> bucketsByDate[targetDateKeys[j]]]

BinParked ==
    /\ binIn = [events |-> <<>>, targetDateKeys |-> <<>>]
    /\ binOut = [done |-> FALSE, days |-> <<>>]

Bin ==
    /\ ~binOut.done
    /\ binOut' = [done |-> TRUE,
                  days |-> binAfkEventsToJstHourly(binIn.events, binIn.targetDateKeys)]
    /\ UNCHANGED binIn
    /\ UNCHANGED outsideBin

-----------------------------------------------------------------------------
(* Scheduler *)

\* result.cooldownKey && result.cooldownMs
needsCooldownCheck(r) ==
    r.cooldownKey # NoKey /\ r.cooldownMs # NoMs /\ r.cooldownMs # 0

\* mutant of needsCooldownWrite: the write is guarded like the check
needsCooldownWrite_RequiresMs(r) ==
    r.cooldownKey # NoKey /\ r.cooldownMs # NoMs /\ r.cooldownMs # 0

\* if (result.cooldownKey)
needsCooldownWrite(r) == r.cooldownKey # NoKey

\* mutant of isCooldownActive: the comparison is turned around
isCooldownActive_Inverted(c, f, key, ms, t) ==
    LET lastTime == getTime(c, f, key)
    IN  IF lastTime = Undefined THEN FALSE
        ELSE t - lastTime.v > ms

\* mutant of isCooldownActive: the comparison is inclusive
isCooldownActive_Inclusive(c, f, key, ms, t) ==
    LET lastTime == getTime(c, f, key)
    IN  IF lastTime = Undefined THEN FALSE
        ELSE t - lastTime.v <= ms

\* mutant of isCooldownActive: the stored time is never looked at
isCooldownActive_Never(c, f, key, ms, t) == FALSE

isCooldownActive(c, f, key, ms, t) ==
    LET lastTime == getTime(c, f, key)
    IN  IF lastTime = Undefined THEN FALSE
        ELSE t - lastTime.v < ms

Ok == [type |-> "ok", jobId |-> ""]

\* mutant of Err: the error does not name the job
Err_NoJobId(type, id) == [type |-> type, jobId |-> ""]

Err(type, id) == [type |-> type, jobId |-> id]

Init ==
    /\ jobs \in JobLists
    /\ now = 0
    /\ file = EmptyData
    /\ cache = NullCache
    /\ fresh = TRUE
    /\ pc = "idle"
    /\ idx = 1
    /\ cur = NoResult
    /\ executedJobs = <<>>
    /\ notifiedJobs = <<>>
    /\ skippedJobs = <<>>
    /\ result = [type |-> "none", jobId |-> ""]
    /\ log = <<>>
    /\ sentHere = [id \in JobIds |-> 0]
    /\ sentToday = {}
    /\ ticks = 0
    /\ markedAtStart = {}
    /\ lastSent = [k \in CooldownKeys |-> -1]
    /\ StoreInit
    /\ RunParked
    /\ CallParked
    /\ SendParked
    /\ WeekParked
    /\ BinParked

\* the tick engine at rest, with no job registered
Parked ==
    /\ jobs = <<>>
    /\ now = 0
    /\ file = EmptyData
    /\ cache = NullCache
    /\ fresh = TRUE
    /\ pc = "idle"
    /\ idx = 1
    /\ cur = NoResult
    /\ executedJobs = <<>>
    /\ notifiedJobs = <<>>
    /\ skippedJobs = <<>>
    /\ result = [type |-> "none", jobId |-> ""]
    /\ log = <<>>
    /\ sentHere = [id \in JobIds |-> 0]
    /\ sentToday = {}
    /\ ticks = 0
    /\ markedAtStart = {}
    /\ lastSent = [k \in CooldownKeys |-> -1]

\* handleTick / a test calling runTick: fresh = a new process creates its
\* own store instance; otherwise the same ctx (same store) is used again
StartTick ==
    /\ pc \in {"idle", "done"}
    /\ ticks < MaxTicks
    /\ \E t \in now..MaxNow, newStore \in BOOLEAN :
        LET c == IF newStore THEN NullCache ELSE cache IN
        /\ now' = t
        /\ cache' = c
        /\ fresh' = newStore
        /\ sentHere' = IF newStore \/ t # now
                       THEN [id \in JobIds |-> 0] ELSE sentHere
        /\ sentToday' = IF formatDateKey(t) # formatDateKey(now)
                        THEN {} ELSE sentToday
        /\ markedAtStart' =
             {i \in DOMAIN jobs :
                /\ IsDaily(jobs[i])
                /\ get(c, file, dailyKey(jobs[i].id, t)) = Str(formatDateKey(t))}
    /\ ticks' = ticks + 1
    /\ idx' = 1
    /\ cur' = NoResult
    /\ executedJobs' = <<>>
    /\ notifiedJobs' = <<>>
    /\ skippedJobs' = <<>>
    /\ log' = <<>>
    /\ IF Len(jobs) = 0
       THEN pc' = "done" /\ result' = Ok
       ELSE pc' = "shouldRun" /\ result' = [type |-> "none", jobId |-> ""]
    /\ UNCHANGED <<jobs, file, lastSent>>
    /\ UNCHANGED outsideTick

\* mutant of NextJob: `break` in place of `continue`
NextJob_Break == idx' = idx /\ pc' = "done" /\ result' = Ok

\* `continue` / end of the loop body: the next job, or return ok(...)
NextJob ==
    IF idx < Len(jobs)
    THEN idx' = idx + 1 /\ pc' = "shouldRun" /\ result' = result
    ELSE idx' = idx /\ pc' = "done" /\ result' = Ok

\* mutant of Abort: the failure is logged and the loop goes on
Abort_Continue(type) ==
    IF idx < Len(jobs)
    THEN idx' = idx + 1 /\ pc' = "shouldRun" /\ result' = result
    ELSE idx' = idx /\ pc' = "done" /\ result' = Ok

\* return err(...)
Abort(type) ==
    /\ idx' = idx
    /\ pc' = "done"
    /\ result' = Err(type, jobs[idx].id)

\* mutant of ShouldRunStep: a throwing shouldRun ends the tick
ShouldRunStep_ThrowAborts ==
    /\ pc = "shouldRun"
    /\ LET job == jobs[idx]
           sr == jobShouldRun(job, cache, file, now)
       IN  /\ cache' = IF IsDaily(job) THEN load(cache, file) ELSE cache
           /\ IF sr = "throw"
              THEN /\ log' = log \o << <<"Evaluating job", job.id>>,
                                       <<"Job shouldRun failed", job.id>> >>
                   /\ skippedJobs' = skippedJobs
                   /\ idx' = idx /\ pc' = "done"
                   /\ result' = [type |-> "provider_error", jobId |-> job.id]
              ELSE IF sr = "false"
              THEN /\ log' = log \o << <<"Evaluating job", job.id>>,
                                       <<"Job skipped", job.id>> >>
                   /\ skippedJobs' = Append(skippedJobs, job.id)
                   /\ NextJob
              ELSE /\ log' = Append(log, <<"Evaluating job", job.id>>)
                   /\ skippedJobs' = skippedJobs
                   /\ idx' = idx /\ pc' = "run" /\ result' = result
    /\ UNCHANGED <<jobs, now, file, fresh, cur, executedJobs, notifiedJobs,
                   sentHere, sentToday, ticks, markedAtStart, lastSent>>
    /\ UNCHANGED outsideTick

\* lines 72-89: job.shouldRun(ctx)
ShouldRunStep ==
    /\ pc = "shouldRun"
    /\ LET job == jobs[idx]
           sr == jobShouldRun(job, cache, file, now)
       IN  /\ cache' = IF IsDaily(job) THEN load(cache, file) ELSE cache
           /\ IF sr = "throw"
              THEN /\ log' = log \o << <<"Evaluating job", job.id>>,
                                       <<"Job shouldRun failed", job.id>> >>
                   /\ skippedJobs' = Append(skippedJobs, job.id)
                   /\ NextJob
              ELSE IF sr = "false"
              THEN /\ log' = log \o << <<"Evaluating job", job.id>>,
                                       <<"Job skipped", job.id>> >>
                   /\ skippedJobs' = Append(skippedJobs, job.id)
                   /\ NextJob
              ELSE /\ log' = Append(log, <<"Evaluating job", job.id>>)
                   /\ skippedJobs' = skippedJobs
                   /\ idx' = idx /\ pc' = "run" /\ result' = result
    /\ UNCHANGED <<jobs, now, file, fresh, cur, executedJobs, notifiedJobs,
                   sentHere, sentToday, ticks, markedAtStart, lastSent>>
    /\ UNCHANGED outsideTick

\* lines 91-116 up to the cooldown check: job.run(ctx)
RunStep ==
    /\ pc = "run"
    /\ \E env \in EnvsOf(jobs[idx]) :
        LET job == jobs[idx]
            r == jobRunResult(job, env)
            c == IF runWritesMarker(job)
                 THEN setCache(cache, file, dailyKey(job.id, now),
                               Str(formatDateKey(now)))
                 ELSE cache
        IN  /\ cache' = c
            /\ file' = IF runWritesMarker(job)
                       THEN writeFile(file, c.data, env.writeOk)
                       ELSE file
            /\ IF r.type = "throw"
               THEN /\ log' = log \o << <<"Executing job", job.id>>,
                                        <<"Job execution failed", job.id>> >>
                    /\ executedJobs' = executedJobs
                    /\ cur' = cur
                    /\ Abort("provider_error")
               ELSE IF r.type = "no_notify"
               THEN /\ log' = log \o << <<"Executing job", job.id>>,
                                        <<"Job completed without notification", job.id>> >>
                    /\ executedJobs' = Append(executedJobs, job.id)
                    /\ cur' = r
                    /\ NextJob
               ELSE /\ log' = Append(log, <<"Executing job", job.id>>)
                    /\ executedJobs' = Append(executedJobs, job.id)
                    /\ cur' = r
                    /\ idx' = idx /\ result' = result
                    /\ pc' = IF needsCooldownCheck(r) THEN "cooldown" ELSE "notify"
    /\ UNCHANGED <<jobs, now, fresh, notifiedJobs, skippedJobs, sentHere,
                   sentToday, ticks, markedAtStart, lastSent>>
    /\ UNCHANGED outsideTick

\* lines 109-116: the cooldown check
CooldownStep ==
    /\ pc = "cooldown"
    /\ cache' = load(cache, file)
    /\ IF isCooldownActive(cache, file, cur.cooldownKey, cur.cooldownMs, now)
       THEN /\ log' = Append(log, <<"Notification blocked by cooldown", jobs[idx].id>>)
            /\ NextJob
       ELSE /\ log' = log
            /\ idx' = idx /\ pc' = "notify" /\ result' = result
    /\ UNCHANGED <<jobs, now, file, fresh, cur, executedJobs, notifiedJobs,
                   skippedJobs, sentHere, sentToday, ticks, markedAtStart, lastSent>>
    /\ UNCHANGED outsideTick

\* lines 118-127: the notifier call
NotifyStep ==
    /\ pc = "notify"
    /\ \E sent \in BOOLEAN :
        IF sent
        THEN /\ log' = Append(log, <<"Sending notification", jobs[idx].id>>)
             /\ sentHere' = [sentHere EXCEPT ![jobs[idx].id] = @ + 1]
             /\ sentToday' = sentToday \cup {jobs[idx].id}
             /\ notifiedJobs' = Append(notifiedJobs, jobs[idx].id)
             /\ lastSent' = IF needsCooldownCheck(cur)
                            THEN [lastSent EXCEPT ![cur.cooldownKey] = now]
                            ELSE lastSent
             /\ IF needsCooldownWrite(cur)
                THEN idx' = idx /\ pc' = "setTime" /\ result' = result
                ELSE NextJob
        ELSE /\ log' = log \o << <<"Sending notification", jobs[idx].id>>,
                                 <<"Notification failed", jobs[idx].id>> >>
             /\ sentHere' = sentHere
             /\ sentToday' = sentToday
             /\ notifiedJobs' = notifiedJobs
             /\ lastSent' = lastSent
             /\ Abort("notifier_error")
    /\ UNCHANGED <<jobs, now, file, cache, fresh, cur, executedJobs,
                   skippedJobs, ticks, markedAtStart>>
    /\ UNCHANGED outsideTick

\* mutant of SetTimeStep: the loop goes on without the cooldown write
SetTimeStep_NoWrite ==
    /\ pc = "setTime"
    /\ NextJob
    /\ UNCHANGED <<jobs, now, fresh, cur, executedJobs, notifiedJobs, cache, file,
                   skippedJobs, log, sentHere, sentToday, ticks, markedAtStart, lastSent>>
    /\ UNCHANGED outsideTick

\* mutant of SetTimeStep: a failed cooldown write ends the tick with an error
SetTimeStep_FailAborts ==
    /\ pc = "setTime"
    /\ \E writeOk \in BOOLEAN :
        LET c == setCache(cache, file, cur.cooldownKey, Num(now))
        IN  /\ cache' = c
            /\ file' = writeFile(file, c.data, writeOk)
            /\ IF writeOk THEN NextJob ELSE Abort("state_error")
    /\ UNCHANGED <<jobs, now, fresh, cur, executedJobs, notifiedJobs,
                   skippedJobs, log, sentHere, sentToday, ticks, markedAtStart, lastSent>>
    /\ UNCHANGED outsideTick

\* lines 129-132: state.setTime(result.cooldownKey, now.getTime())
SetTimeStep ==
    /\ pc = "setTime"
    /\ \E writeOk \in BOOLEAN :
        LET c == setCache(cache, file, cur.cooldownKey, Num(now))
        IN  /\ cache' = c
            /\ file' = writeFile(file, c.data, writeOk)
    /\ NextJob
    /\ UNCHANGED <<jobs, now, fresh, cur, executedJobs, notifiedJobs,
                   skippedJobs, log, sentHere, sentToday, ticks, markedAtStart, lastSent>>
    /\ UNCHANGED outsideTick

\* handleReset: another process clears the state file between ticks
Reset ==
    /\ pc \in {"idle", "done"}
    /\ \E writeOk \in BOOLEAN : file' = writeFile(file, EmptyData, writeOk)
    /\ UNCHANGED <<jobs, now, cache, fresh, pc, idx, cur, executedJobs,
                   notifiedJobs, skippedJobs, result, log, sentHere, sentToday,
                   ticks, markedAtStart, lastSent>>
    /\ UNCHANGED outsideTick

Next ==
    \/ StartTick
    \/ ShouldRunStep
    \/ RunStep
    \/ CooldownStep
    \/ NotifyStep
    \/ SetTimeStep
    \/ Reset

Spec == Init /\ [][Next]_vars

TypeOK ==
    /\ pc \in {"idle", "shouldRun", "run", "cooldown", "notify", "setTime", "done"}
    /\ idx \in 1..NumJobs
    /\ now \in 0..MaxNow
    /\ ticks \in 0..MaxTicks
    /\ lastSent \in [CooldownKeys -> -1..MaxNow]

-----------------------------------------------------------------------------
(* Helpers for the properties *)

\* position of the job with this id in the job list
PosOf(id) == CHOOSE i \in DOMAIN jobs : jobs[i].id = id

\* the run result in hand carries both cooldownKey and cooldownMs
CarriesKeyAndMs ==
    /\ pc \in {"cooldown", "notify"}
    /\ cur.type = "notify"
    /\ cur.cooldownKey # NoKey
    /\ cur.cooldownMs # NoMs

LastTs == getTime(cache, file, cur.cooldownKey)

CurId == jobs[idx].id

-----------------------------------------------------------------------------
(* C1 *)

C1Step ==
    (/\ CarriesKeyAndMs
     /\ LastTs # Undefined
     /\ now - LastTs.v < cur.cooldownMs)
    => /\ log' = Append(log, <<"Notification blocked by cooldown", CurId>>)
       /\ sentHere' = sentHere
       /\ sentToday' = sentToday
       /\ notifiedJobs' = notifiedJobs
       /\ file' = file
       /\ getTime(cache', file', cur.cooldownKey) = LastTs

C1Tick ==
    \A id \in JobIds :
        <<"Notification blocked by cooldown", id>> \in Range(log)
        => /\ <<"Sending notification", id>> \notin Range(log)
           /\ id \notin Range(notifiedJobs)

\* C1: a job whose run returned Notify with cooldownKey and cooldownMs, while
\* the store holds lastTs under the key with now - lastTs < cooldownMs, is
\* suppressed: the notifier is not called for it in that tick, it is not
\* listed in notified, and the value under cooldownKey stays as it was.
C1_CooldownSuppresses == [][C1Step]_vars /\ []C1Tick

C1_Witness ==
    /\ pc = "done"
    /\ result.type = "ok"
    /\ \E i \in DOMAIN jobs :
        /\ <<"Notification blocked by cooldown", jobs[i].id>> \in Range(log)
        /\ jobs[i].cooldownMs = CooldownMs
        /\ getTime(cache, file, jobs[i].cooldownKey) # Undefined
        /\ getTime(cache, file, jobs[i].cooldownKey).v < now

-----------------------------------------------------------------------------
(* C2 *)

\* the loop iteration of job i of the current tick is over
Finished(i) == pc # "idle" /\ (i < idx \/ (i = idx /\ pc = "done"))

\* C2: once the lifecycle of a job that was notified with a Notify carrying a
\* cooldownKey (with or without cooldownMs) is over, the store holds now's
\* epoch milliseconds under that key.
C2_SentUpdatesCooldown ==
    \A i \in DOMAIN jobs :
        (/\ Finished(i)
         /\ jobs[i].id \in Range(notifiedJobs)
         /\ jobs[i].cooldownKey # NoKey)
        => getTime(cache, file, jobs[i].cooldownKey) = Num(now)

C2_Witness ==
    \E i \in DOMAIN jobs :
        /\ Finished(i)
        /\ jobs[i].id \in Range(notifiedJobs)
        /\ jobs[i].cooldownKey # NoKey
        /\ jobs[i].cooldownMs = NoMs
        /\ now > 0
        /\ getTime(cache, file, jobs[i].cooldownKey) = Num(now)

-----------------------------------------------------------------------------
(* C3 *)

\* the same job delivered twice at the same now through the same store
SentTwice(id) == sentHere[id] >= 2

\* C3 as claimed: a notification carrying a cooldownKey that a tick sent is
\* not sent again when the same tick (same now, same store) is run again.
C3_Original ==
    \A i \in DOMAIN jobs :
        jobs[i].cooldownKey # NoKey => ~SentTwice(jobs[i].id)

\* C3 (amended): a notification carrying a cooldownKey and a cooldownMs
\* greater than zero that a tick sent is not sent again when the same tick
\* (same job list, same now, same store) is run again.
C3_RerunSuppressed ==
    \A i \in DOMAIN jobs :
        (/\ jobs[i].cooldownKey # NoKey
         /\ jobs[i].cooldownMs # NoMs
         /\ jobs[i].cooldownMs > 0)
        => ~SentTwice(jobs[i].id)

C3_Witness ==
    /\ ticks = 2
    /\ pc = "done"
    /\ result.type = "ok"
    /\ \E i \in DOMAIN jobs :
        /\ jobs[i].cooldownKey # NoKey
        /\ jobs[i].cooldownMs = CooldownMs
        /\ <<"Notification blocked by cooldown", jobs[i].id>> \in Range(log)
        /\ sentHere[jobs[i].id] = 1
        /\ ~fresh

-----------------------------------------------------------------------------
(* C4 *)

C4Step ==
    (CarriesKeyAndMs /\ LastTs # Undefined)
    => /\ (now = LastTs.v + cur.cooldownMs)
            => /\ pc = "cooldown" => (pc' = "notify" /\ log' = log)
               /\ pc = "notify" =>
                    \E p \in DOMAIN log' : log'[p] = <<"Sending notification", CurId>>
       /\ (log' = Append(log, <<"Notification blocked by cooldown", CurId>>))
            => now - LastTs.v < cur.cooldownMs

\* C4: the cooldown comparison is strict.  With lastTs held under the key, a
\* tick whose now equals lastTs + cooldownMs goes on to call the notifier,
\* and a notification is suppressed only when now - lastTs < cooldownMs.
C4_StrictComparison == [][C4Step]_vars

C4_Witness ==
    /\ pc = "setTime"
    /\ cur.cooldownKey # NoKey
    /\ cur.cooldownMs = CooldownMs
    /\ CooldownMs > 0
    /\ LastTs = Num(now - cur.cooldownMs)
    /\ CurId \in Range(notifiedJobs)

-----------------------------------------------------------------------------
(* C5 *)

\* every logged call of the current tick belongs to a job at or before idx
NoLaterJobTouched ==
    \A p \in DOMAIN log : PosOf(log[p][2]) <= idx

\* C5: when run fails for the job at position i, runTick returns a
\* provider_error carrying that job's id, and shouldRun, run and the
\* notifier are not called for any job at a later position.
C5_RunFailureAborts ==
    \A p \in DOMAIN log :
        log[p][1] = "Job execution failed"
        => /\ p = Len(log)
           /\ pc = "done"
           /\ result.type = "provider_error"
           /\ result.jobId = log[p][2]
           /\ log[p][2] = jobs[idx].id
           /\ log[p][2] \notin Range(executedJobs)
           /\ NoLaterJobTouched

C5_Witness ==
    /\ Len(jobs) = 2
    /\ idx = 1
    /\ pc = "done"
    /\ result.type = "provider_error"
    /\ result.jobId = jobs[1].id
    /\ <<"Job execution failed", jobs[1].id>> \in Range(log)
    /\ <<"Evaluating job", jobs[2].id>> \notin Range(log)

-----------------------------------------------------------------------------
(* C6 *)

C6Tick ==
    \A p \in DOMAIN log :
        log[p][1] = "Notification failed"
        => /\ p = Len(log)
           /\ pc = "done"
           /\ result.type = "notifier_error"
           /\ result.jobId = log[p][2]
           /\ log[p][2] = jobs[idx].id
           /\ log[p][2] \notin Range(notifiedJobs)
           /\ NoLaterJobTouched

C6Step ==
    (pc = "notify" /\ log' # log /\ log'[Len(log')][1] = "Notification failed")
    => /\ file' = file
       /\ cache' = cache
       /\ notifiedJobs' = notifiedJobs
       /\ sentHere' = sentHere
       /\ sentToday' = sentToday

\* C6: when the notifier fails for a job, runTick returns a notifier_error
\* carrying that job's id, the job is not recorded as notified, its cooldown
\* timestamp is not written, and no later job is evaluated.
C6_NotifierFailureAborts == []C6Tick /\ [][C6Step]_vars

C6_Witness ==
    /\ Len(jobs) = 2
    /\ idx = 1
    /\ pc = "done"
    /\ result.type = "notifier_error"
    /\ result.jobId = jobs[1].id
    /\ jobs[1].cooldownKey # NoKey
    /\ getTime(cache, file, jobs[1].cooldownKey) # Num(now)
    /\ <<"Evaluating job", jobs[2].id>> \notin Range(log)

-----------------------------------------------------------------------------
(* C7 *)

Aborted == pc = "done" /\ result.type \in {"provider_error", "notifier_error"}

Delivered(id) == sentHere[id] >= 1 /\ id \in sentToday

\* C7: after a tick aborted with provider_error or notifier_error at job i,
\* every notification sent for an earlier job of that tick is still in the
\* notifier's record, and the store still holds now under the cooldownKey
\* of each of those jobs.
C7_AbortKeepsEarlierEffects ==
    Aborted =>
        \A i \in DOMAIN jobs :
            jobs[i].id \in Range(notifiedJobs)
            => /\ i < idx
               /\ Delivered(jobs[i].id)
               /\ jobs[i].cooldownKey # NoKey
                    => getTime(cache, file, jobs[i].cooldownKey) = Num(now)

C7_Witness ==
    /\ Aborted
    /\ idx = 2
    /\ jobs[1].id \in Range(notifiedJobs)
    /\ jobs[1].cooldownKey # NoKey
    /\ now > 0
    /\ getTime(cache, file, jobs[1].cooldownKey) = Num(now)
    /\ file[jobs[1].cooldownKey] = Num(now)
    /\ Delivered(jobs[1].id)

-----------------------------------------------------------------------------
(* C8 *)

C8Step ==
    (pc = "shouldRun" /\ jobShouldRun(jobs[idx], cache, file, now) = "throw")
    => /\ skippedJobs' = Append(skippedJobs, CurId)
       /\ executedJobs' = executedJobs
       /\ log' = log \o << <<"Evaluating job", CurId>>,
                           <<"Job shouldRun failed", CurId>> >>
       /\ result'.type \notin {"provider_error", "notifier_error"}
       /\ IF idx < Len(jobs)
          THEN pc' = "shouldRun" /\ idx' = idx + 1
          ELSE pc' = "done" /\ result'.type = "ok"

C8Tick ==
    \A id \in JobIds :
        <<"Job shouldRun failed", id>> \in Range(log)
        => /\ <<"Executing job", id>> \notin Range(log)
           /\ id \in Range(skippedJobs)
           /\ id \notin Range(executedJobs)

\* C8: when shouldRun throws for a job, the job is recorded as skipped, its
\* run is not called, the tick is not aborted, and the loop goes on with
\* the next job of the list.
C8_ShouldRunFailureSkips == [][C8Step]_vars /\ []C8Tick

C8_Witness ==
    /\ Len(jobs) = 2
    /\ <<"Job shouldRun failed", jobs[1].id>> \in Range(log)
    /\ jobs[1].id \in Range(skippedJobs)
    /\ <<"Executing job", jobs[2].id>> \in Range(log)
    /\ pc = "done"
    /\ result.type = "ok"

-----------------------------------------------------------------------------
(* C9 *)

\* C9: a daily-marker job whose marker daily:<jobId>:<D> = D is held by the
\* store when a tick on local date D starts (the same store, or a new
\* process's store loaded from the file) gets shouldRun = false in that
\* tick: it is skipped, its run is not called and it sends no notification.
C9_DailyMarkerBlocksReemission ==
    \A i \in markedAtStart :
        /\ <<"Executing job", jobs[i].id>> \notin Range(log)
        /\ <<"Sending notification", jobs[i].id>> \notin Range(log)
        /\ jobs[i].id \notin Range(notifiedJobs)
        /\ Finished(i) => /\ <<"Job skipped", jobs[i].id>> \in Range(log)
                          /\ jobs[i].id \in Range(skippedJobs)

C9_Witness ==
    /\ pc = "done"
    /\ fresh
    /\ ticks = 2
    /\ \E i \in markedAtStart :
        /\ file[dailyKey(jobs[i].id, now)] = Str(formatDateKey(now))
        /\ <<"Job skipped", jobs[i].id>> \in Range(log)
        /\ jobs[i].id \in sentToday
        /\ sentHere[jobs[i].id] = 0

-----------------------------------------------------------------------------
(* C10 *)

EmittedToday(id) == id \in sentToday

\* C10: between ticks, whenever the marker daily:<jobId>:<today> of a
\* daily-marker job equals today's date, the job's notification for today
\* has been delivered.
C10_MarkerImpliesEmitted ==
    pc \in {"idle", "done"} =>
        \A i \in DOMAIN jobs :
            (/\ IsDaily(jobs[i])
             /\ get(cache, file, dailyKey(jobs[i].id, now)) = Str(formatDateKey(now)))
            => EmittedToday(jobs[i].id)

-----------------------------------------------------------------------------
(* The state store on its own *)

StoreSpecInit ==
    /\ nops = 0
    /\ StoreInit
    /\ Parked
    /\ RunParked
    /\ CallParked
    /\ SendParked
    /\ WeekParked
    /\ BinParked

StoreSpec == StoreSpecInit /\ [][StoreNext]_storeVars

\* the state file as another process finds it
StateFile == fileState(dir, inodes, FilePath)

\* what get(key) returns through a store instance created now
freshGet(key) == get(NoCache, readFile(dir, inodes, FilePath), key)

\* what get(key) returns through the instance of process p
ownGet(p, key) == get(caches[p], readFile(dir, inodes, FilePath), key)

IsWrite(c) == c.op \in {"set", "setTime", "clear"}

\* p has returned from a writing call that no other writing call overlapped
Settled(p) == spc[p] = "idle" /\ IsWrite(call[p]) /\ hist[p].alone

\* the complete document of p's in-memory map
NewDoc(p) == [exists |-> TRUE, text |-> JSONstringify(caches[p].data)]

-----------------------------------------------------------------------------
(* C11 *)

\* C11: a store instance whose first writing call is set(k2, v2) leaves
\* every other key as it loaded it from the file.  With k1 = v1 written
\* earlier through another instance, get(k1) returns v1 after the set, through
\* this instance and, once its document is the file, through any instance
\* created later.
C11_UnknownKeysPreserved ==
    \A p \in StoreProcs :
        (/\ Settled(p)
         /\ call[p].op \in {"set", "setTime"}
         /\ hist[p].writes = 1)
        => \A k1 \in StoreKeys \ {call[p].key} :
             /\ ownGet(p, k1) = getProp(hist[p].pre, k1)
             /\ writer = p => freshGet(k1) = getProp(hist[p].pre, k1)

C11_Witness ==
    /\ call["A"] = [op |-> "set", key |-> "k1", value |-> Str(1), ret |-> "ok",
                    fault |-> FALSE]
    /\ Settled("B")
    /\ hist["B"].writes = 1
    /\ call["B"] = [op |-> "set", key |-> "k2", value |-> Obj(1), ret |-> "ok",
                    fault |-> FALSE]
    /\ getProp(hist["B"].pre, "k1") = Str(1)
    /\ writer = "B"
    /\ ownGet("B", "k1") = Str(1)
    /\ freshGet("k1") = Str(1)
    /\ freshGet("k2") = Obj(1)

-----------------------------------------------------------------------------
(* C12 *)

\* C12: while a set, setTime or clear that no other writing call overlaps is
\* in progress, the state file another process reads is the complete
\* document it was when the call began or the complete new document; once
\* the call has returned ok, it is the complete new document.
C12_AtomicReplace ==
    \A p \in StoreProcs :
        /\ (spc[p] # "idle" /\ hist[p].alone)
             => StateFile \in {hist[p].before, NewDoc(p)}
        /\ (Settled(p) /\ call[p].ret = "ok" /\ writer = p)
             => StateFile = NewDoc(p)

C12_Witness ==
    \E p \in StoreProcs :
        /\ spc[p] = "rename"
        /\ hist[p].alone
        /\ call[p].op = "set"
        /\ hist[p].before.exists
        /\ StateFile = hist[p].before
        /\ StateFile # NewDoc(p)
        /\ fileState(dir, inodes, tempPath(FilePath)) = NewDoc(p)

-----------------------------------------------------------------------------
(* C13 *)

\* C13: after two writing calls of two instances that overlapped have both
\* returned, the state file is the complete document of the in-memory map
\* of one of the two instances.
C13_LastWriterWins ==
    (/\ \A p \in StoreProcs : spc[p] = "idle"
     /\ \A p \in StoreProcs :
            IsWrite(call[p]) /\ ~hist[p].alone /\ ~call[p].fault)
    => \E p \in StoreProcs : StateFile = NewDoc(p)

-----------------------------------------------------------------------------
(* C14 *)

\* C14: after clear() and then set(k, v) with a JSON-representable v through
\* one instance, both returning ok, a newly created instance on the same
\* file returns v from get(k).
C14_RoundTrip ==
    \A p \in StoreProcs :
        (/\ Settled(p)
         /\ call[p].op = "set"
         /\ call[p].ret = "ok"
         /\ hist[p].afterClear
         /\ writer = p
         /\ JSONRepresentable(call[p].value))
        => freshGet(call[p].key) = call[p].value

-----------------------------------------------------------------------------
(* Job runs on their own *)

RunSpecInit ==
    /\ runOut = NoOut
    /\ RunInit
    /\ Parked
    /\ StoreInit
    /\ CallParked
    /\ SendParked
    /\ WeekParked
    /\ BinParked

RunSpec == RunSpecInit /\ [][RunNext]_runVars

Ran(kind) == runIn.kind = kind /\ runOut # NoOut

-----------------------------------------------------------------------------
(* C15 *)

\* C15: a run of the daily-report job returns Notify and leaves today's
\* marker daily:daily-report:<today> = today in the store (and in the state
\* file when the write succeeds), whether the chat delivery succeeded or
\* failed; a failed delivery is logged and does not make run fail.
C15_ReportSurvivesChatFailure ==
    Ran("daily-report") =>
        LET key == dailyKey("daily-report", runIn.env.now)
            today == Str(formatDateKey(runIn.env.now))
        IN  /\ runOut.result.type = "notify"
            /\ get(runOut.cache, runOut.file, key) = today
            /\ runIn.env.writeOk => runOut.file[key] = today
            /\ ~runIn.env.slackOk => runOut.log[Len(runOut.log)] = "Slack send failed"

C15_Witness ==
    /\ Ran("daily-report")
    /\ ~runIn.env.slackOk
    /\ runIn.env.writeOk
    /\ runIn.env.now > 0
    /\ runOut.result.type = "notify"
    /\ runOut.file[dailyKey("daily-report", runIn.env.now)]
         = Str(formatDateKey(runIn.env.now))
    /\ "Slack send failed" \in Range(runOut.log)

-----------------------------------------------------------------------------
(* C16 *)

BelowThreshold ==
    /\ runIn.metrics.ok
    /\ runIn.metrics.maxContinuousSeconds < runIn.config.thresholdMinutes * 60

AlertNotify ==
    Notify(<<"cooldown", "continuous-work-alert">>,
           runIn.config.cooldownMinutes * 60 * 1000)

-----------------------------------------------------------------------------
(* Service calls on their own *)

CallSpecInit ==
    /\ reqs = <<>>
    /\ CallParked
    /\ Parked
    /\ StoreInit
    /\ RunParked
    /\ SendParked
    /\ WeekParked
    /\ BinParked

CallSpec == CallSpecInit /\ [][CallNext]_callVars

Calling(name) == callOp.name = name

UploadLegs ==
    <<"files.getUploadURLExternal", "upload_url", "files.completeUploadExternal">>

\* leg k of the upload got what it asked for
LegSucceeded(k) ==
    /\ reqs[k].answer.kind = "ok"
    /\ k = 1 => reqs[k].answer.upload_url # 0 /\ reqs[k].answer.file_id # 0

\* the server answered the request and the answer says it failed
LegRefused(k) ==
    \/ reqs[k].answer.kind \in {"http_error", "api_error"}
    \/ reqs[k].answer.kind = "ok" /\ ~LegSucceeded(k)

-----------------------------------------------------------------------------
(* C17 *)

-----------------------------------------------------------------------------
(* C18 *)

\* the files.info request was answered without a public link
InfoWithoutLink ==
    \/ reqs[2].answer.kind \in {"http_error", "api_error"}
    \/ reqs[2].answer.kind = "ok" /\ ~reqs[2].answer.link

-----------------------------------------------------------------------------
(* C19 *)

\* C19: no operation of the provider, the analyzer, the chat client or the
\* uploader ends by an exception: whatever the requests are answered with,
\* a rejected request and an undecodable body included, a finished call has
\* returned ok or a typed error.
C19_NeverThrows ==
    callAt = "done" => callRet.type \in {"ok", "err"}

-----------------------------------------------------------------------------
(* Sending a message on its own *)

SendSpecInit ==
    /\ message \in Messages
    /\ sendOut = NotSent
    /\ Parked
    /\ StoreInit
    /\ RunParked
    /\ CallParked
    /\ WeekParked
    /\ BinParked

SendSpec == SendSpecInit /\ [][SendSlackMessage]_sendVars

-----------------------------------------------------------------------------
(* C20 *)

only(cond, v) == IF cond THEN {v} ELSE {}

\* the platform constraints that block number i violates: 1 to 10 fields,
\* field text <= 2000, section text <= 3000, header text <= 150, alt_text
\* <= 2000, image_url <= 3000 and starting with http:// or https://, and
\* exactly one of image_url and slack_file
BlockViolations(i, block) ==
    only(block.type = "section" /\ block.hasFields /\ Len(block.fields) \notin 1..10,
         Violation(i, -1, "field_count"))
    \cup {Violation(i, j - 1, "field_text") :
            j \in {k \in DOMAIN block.fields :
                     block.type = "section" /\ block.fields[k] > 2000}}
    \cup only(block.type = "section" /\ block.text > 3000, Violation(i, -1, "section_text"))
    \cup only(block.type = "header" /\ block.text > 150, Violation(i, -1, "header_text"))
    \cup only(block.type = "image" /\ block.alt_text > 2000, Violation(i, -1, "alt_text"))
    \cup only(block.type = "image" /\ block.image_url.len > 3000,
              Violation(i, -1, "image_url_length"))
    \cup only(block.type = "image" /\ block.image_url.len > 0 /\ ~block.image_url.http,
              Violation(i, -1, "image_url_scheme"))
    \cup only(block.type = "image"
                /\ (block.image_url.len > 0) = (block.slack_file # "absent"),
              Violation(i, -1, "image_source"))

PlatformViolations ==
    only(Len(message) > 50, Violation(-1, -1, "too_many_blocks"))
    \cup UNION {BlockViolations(i - 1, message[i]) : i \in DOMAIN message}

\* C20: when the message violates a platform constraint, sendSlackMessage
\* makes no webhook request and returns slack_error, and every violation of
\* the message has its entry in the error's message.
C20_InvalidBlocksNeverSent ==
    (sendOut # NotSent /\ PlatformViolations # {}) =>
        /\ sendOut.requests = 0
        /\ sendOut.type = "slack_error"
        /\ PlatformViolations \subseteq Range(sendOut.errors)

-----------------------------------------------------------------------------
(* The weekly-report command on its own *)

WeekSpecInit ==
    /\ wkAt = "idle"
    /\ WeekParked
    /\ Parked
    /\ StoreInit
    /\ RunParked
    /\ CallParked
    /\ SendParked
    /\ BinParked

WeekSpec == WeekSpecInit /\ [][WeekNext]_weekVars

ConfigMissing == ~wkIn.webhookUrl \/ ~wkIn.botToken \/ ~wkIn.channelId

-----------------------------------------------------------------------------
(* C21 *)

\* C21: a weekly-report run whose webhook URL, bot token or channel id is
\* missing ends as a configuration failure with exit code 1, and a run that
\* ends so has made no call at all: no fetch from the activity server, no
\* upload, no chat message, no state write.
C21_ConfigErrorHasNoEffects ==
    /\ (wkAt = "done" /\ ConfigMissing) =>
            wkOut.cause \in {"config_error", "webhook_missing"}
    /\ wkOut.cause \in {"config_error", "webhook_missing"} =>
        /\ wkFx = <<>>
        /\ wkOut.type = "error"
        /\ wkOut.exitCode = 1
        /\ file = EmptyData
        /\ \A path \in Paths : dir[path] = 0

C21_Witness ==
    /\ wkAt = "done"
    /\ wkIn.webhookUrl
    /\ wkIn.botToken
    /\ ~wkIn.channelId
    /\ wkOut = Exit("config_error")
    /\ wkFx = <<>>

-----------------------------------------------------------------------------
(* The binner on its own *)

BinSpecInit ==
    /\ binIn \in BinInputs
    /\ binOut = [done |-> FALSE, days |-> <<>>]
    /\ Parked
    /\ StoreInit
    /\ RunParked
    /\ CallParked
    /\ SendParked
    /\ WeekParked

BinSpec == BinSpecInit /\ [][Bin]_binVars

RECURSIVE SumOver(_, _, _)
SumOver(F(_), n, i) == IF i > n THEN 0 ELSE F(i) + SumOver(F, n, i + 1)

\* the clock units of event e that lie on a target date in JST
Clipped(e) ==
    Cardinality({u \in (e.start + JST_OFFSET_MS)..(e.start + e.duration + JST_OFFSET_MS - 1) :
                    \E j \in DOMAIN binIn.targetDateKeys :
                        u \div DayLen = binIn.targetDateKeys[j]})

ClippedTotal ==
    LET D(i) == IF binIn.events[i].status \in {"afk", "not-afk"}
                THEN Clipped(binIn.events[i]) ELSE 0
    IN  SumOver(D, Len(binIn.events), 1)

DayTotal(day) ==
    LET H(h) == day.hours[h].activeSeconds + day.hours[h].afkSeconds
    IN  SumOver(H, Len(day.hours), 1)

BinTotal ==
    LET T(j) == DayTotal(binOut.days[j])
    IN  SumOver(T, Len(binOut.days), 1)

-----------------------------------------------------------------------------
(* C22 *)

\* C22: for every list of AFK events (overlapping or not) the seconds in
\* all output bins, active and afk together, add up to the durations of the
\* afk and not-afk events clipped to the target dates; the output has one
\* day of HoursPerDay bins per target date key, in the order of the keys.
C22_BinnerConservation ==
    binOut.done =>
        /\ BinTotal = ClippedTotal
        /\ Len(binOut.days) = Len(binIn.targetDateKeys)
        /\ \A j \in DOMAIN binOut.days :
            /\ binOut.days[j].date = binIn.targetDateKeys[j]
            /\ Len(binOut.days[j].hours) = HoursPerDay

\* an event that starts on a date outside the target dates and ends on a
\* target date, and another event: part of the first is left out
C22_Witness ==
    /\ binOut.done
    /\ binIn.targetDateKeys = <<1>>
    /\ Len(binIn.events) = 2
    /\ binIn.events[1] = [status |-> "not-afk", start |-> DayLen - JST_OFFSET_MS - 1,
                          duration |-> MinutesPerHour + 1]
    /\ binIn.events[2].status = "afk"
    /\ binIn.events[2].duration = DayLen + 1
    /\ BinTotal = ClippedTotal
    /\ BinTotal > MinutesPerHour
    /\ BinTotal < 2 * MinutesPerHour + DayLen + 2

-----------------------------------------------------------------------------
(* C23 *)

\* this step delivers a notification whose result carries a cooldownKey and
\* a cooldownMs, after an earlier delivery under the same key
C23Send ==
    /\ pc = "notify"
    /\ needsCooldownCheck(cur)
    /\ Len(notifiedJobs') = Len(notifiedJobs) + 1
    /\ lastSent[cur.cooldownKey] # -1

-----------------------------------------------------------------------------
(* C24 *)

\* a job of the current tick is in hand
InLoop == pc \in {"shouldRun", "run", "cooldown", "notify", "setTime"}

\* the whole lifecycle of job i is over: it was skipped, or executed with
\* every state write it makes already in the store later jobs read
LifecycleOver(i) ==
    /\ jobs[i].id \in Range(skippedJobs) \cup Range(executedJobs)
    /\ (jobs[i].id \in Range(executedJobs) /\ IsDaily(jobs[i]))
       => get(cache, file, dailyKey(jobs[i].id, now)) = Str(formatDateKey(now))
    /\ (jobs[i].id \in Range(notifiedJobs) /\ jobs[i].cooldownKey # NoKey)
       => getTime(cache, file, jobs[i].cooldownKey) = Num(now)

\* C24: within one tick the jobs are taken strictly one after the other in
\* list order: while job N is in hand (from its shouldRun on) the lifecycle
\* of every earlier job is over and its state writes are what the store
\* returns; the calls logged for different jobs are never interleaved.
C24_SequentialJobs ==
    /\ InLoop => \A i \in 1..(idx - 1) : LifecycleOver(i)
    /\ InLoop => \A id \in Range(skippedJobs) \cup Range(executedJobs) :
                    PosOf(id) <= idx
    /\ \A m, n \in DOMAIN log :
          m < n => PosOf(log[m][2]) <= PosOf(log[n][2])

\* the second job is blocked by the cooldown time the first job wrote
\* earlier in the same tick
C24_Witness ==
    /\ pc = "done"
    /\ ticks = 1
    /\ Len(jobs) = 2
    /\ notifiedJobs = <<jobs[1].id>>
    /\ executedJobs = <<jobs[1].id, jobs[2].id>>
    /\ <<"Notification blocked by cooldown", jobs[2].id>> \in Range(log)

-----------------------------------------------------------------------------
(* C25 *)

\* this step is the cooldown write of a delivered notification, and the
\* write does not reach the state file
C25FailedWrite ==
    /\ pc = "setTime"
    /\ file' # cache'.data

C25Step ==
    C25FailedWrite
    => /\ CurId \in Range(notifiedJobs')
       /\ notifiedJobs' = notifiedJobs
       /\ executedJobs' = executedJobs
       /\ sentHere' = sentHere
       /\ sentToday' = sentToday
       /\ IF idx < Len(jobs)
          THEN pc' = "shouldRun" /\ idx' = idx + 1 /\ result'.type = "none"
          ELSE pc' = "done" /\ result' = Ok

\* C25: when state.setTime fails to write the cooldown after a delivered
\* notification, the job stays in notified and the delivery stays counted,
\* the loop goes on to the next job's shouldRun, and after the last job
\* runTick returns ok.
C25_CooldownWriteFailureIgnored == [][C25Step]_vars

\* a tick that returned ok although the cooldown time of its first job,
\* which was notified, never reached the state file; the second job ran
C25_Witness ==
    /\ pc = "done"
    /\ ticks = 1
    /\ result = Ok
    /\ Len(jobs) = 2
    /\ jobs[1].cooldownKey # NoKey
    /\ jobs[1].id \in Range(notifiedJobs)
    /\ getTime(NullCache, file, jobs[1].cooldownKey) = Undefined
    /\ getTime(cache, file, jobs[1].cooldownKey) = Num(now)
    /\ jobs[2].id \in Range(executedJobs)

-----------------------------------------------------------------------------
(* C26 *)

\* the ids of list l stand in the order of the job list, none of them twice
InJobOrder(l) ==
    /\ \A m \in DOMAIN l : \E i \in DOMAIN jobs : jobs[i].id = l[m]
    /\ \A m, n \in DOMAIN l : m < n => PosOf(l[m]) < PosOf(l[n])

\* C26: when runTick returns ok, every job of the list is in exactly one of
\* executed and skipped, exactly once; notified is a subset of executed; and
\* each of the three lists keeps the order of the job list.
C26_ResultListsPartitionJobs ==
    (pc = "done" /\ result = Ok)
    => /\ \A i \in DOMAIN jobs :
            (jobs[i].id \in Range(executedJobs)) # (jobs[i].id \in Range(skippedJobs))
       /\ Len(executedJobs) + Len(skippedJobs) = Len(jobs)
       /\ Range(notifiedJobs) \subseteq Range(executedJobs)
       /\ InJobOrder(executedJobs)
       /\ InJobOrder(skippedJobs)
       /\ InJobOrder(notifiedJobs)

\* an ok tick over two jobs: the first skipped, the second executed and
\* notified
C26_Witness ==
    /\ pc = "done"
    /\ result = Ok
    /\ Len(jobs) = 2
    /\ skippedJobs = <<jobs[1].id>>
    /\ executedJobs = <<jobs[2].id>>
    /\ notifiedJobs = <<jobs[2].id>>

-----------------------------------------------------------------------------
(* C27 *)

\* the state file exists and is empty or does not hold one JSON object
Unreadable ==
    LET f == fileState(dir, inodes, FilePath)
    IN  f.exists /\ (f.text = <<>> \/ ~WellFormed(f.text))

\* getTime(key) of an instance holding data: a number, or undefined
timeIn(data, key) ==
    IF getProp(data, key).t = "number" THEN getProp(data, key) ELSE Undefined

\* this step is the first read of instance p, made before any write of it
C27FirstRead(p) ==
    /\ spc[p] = "idle"
    /\ spc'[p] = "idle"
    /\ ~caches[p].loaded
    /\ caches'[p].loaded

C27Step ==
    \A p \in StoreProcs :
        (Unreadable /\ C27FirstRead(p))
        => /\ caches'[p].data = EmptyObject
           /\ \A key \in OwnKeys : getProp(caches'[p].data, key) = Undefined
           /\ \A key \in StoreKeys : timeIn(caches'[p].data, key) = Undefined
           /\ call' = call
           /\ dir' = dir /\ inodes' = inodes

-----------------------------------------------------------------------------
(* C28 *)

\* some section of the message has an odd number of fields, 1 to 9
HasOddFieldCount ==
    \E i \in DOMAIN message :
        /\ message[i].type = "section"
        /\ message[i].hasFields
        /\ Len(message[i].fields) \in 1..(MaxFields - 1)
        /\ Len(message[i].fields) % 2 = 1

\* C28: a message that has a section with an odd number of fields (1 to 9)
\* and violates no platform constraint passes validation and is handed to
\* the webhook.
C28_OddFieldCountIsWarningOnly ==
    (sendOut # NotSent /\ HasOddFieldCount /\ PlatformViolations = {}) =>
        /\ sendOut.errors = <<>>
        /\ sendOut.requests = 1

-----------------------------------------------------------------------------
(* C29 *)

\* the dates of the per-day metrics fetches made so far, in call order
FetchedDates ==
    LET IsDay(x) == x.kind = "afk_metrics"
        calls == SelectSeq(wkFx, IsDay)
    IN  [k \in DOMAIN calls |-> calls[k].date]

\* every date of the window has been fetched
WindowFetched ==
    /\ wkAt # "idle"
    /\ Len(FetchedDates) = clampDays(wkIn.days)

\* C29: the dates whose per-day metrics the weekly report fetches are the
\* last `days` dates ending yesterday, oldest first, the same dates as the
\* binner's target date keys, and now's own date is not among them.
C29_CompletedDaysOnly ==
    WindowFetched =>
        LET n == clampDays(wkIn.days)
            today == formatDateKey(wkIn.now)
        IN  /\ FetchedDates = [k \in 1..n |-> today - (n - k + 1)]
            /\ FetchedDates = buildJstDateKeys(wkIn.now - wkIn.tz, wkIn.days)
            /\ today \notin Range(FetchedDates)

-----------------------------------------------------------------------------
(* C30 *)

\* the positions in wkFx of the calls of one kind
CallsOf(kind) == {i \in DOMAIN wkFx : wkFx[i].kind = kind}

\* a per-day metrics fetch or the events fetch that returned an error
FailedFetch ==
    \E i \in CallsOf("afk_metrics") \cup CallsOf("afk_events") : ~wkFx[i].ok

\* C30: the upload is attempted at most once, and only after one per-day
\* metrics fetch for each date of the window, in order, and then the events
\* fetch have all returned ok; when one of those fetches fails the command
\* returns aw_error (exit code 1) and no upload is attempted.
C30_UploadOnlyAfterFetches ==
    /\ Cardinality(CallsOf("upload")) <= 1
    /\ \A u \in CallsOf("upload") :
        LET dates == buildDateList(wkIn.now, wkIn.days)
            n == Len(dates)
        IN  /\ u > n + 1
            /\ \A k \in 1..n :
                wkFx[k] = [kind |-> "afk_metrics", date |-> formatDateKey(dates[k]),
                           ok |-> TRUE]
            /\ wkFx[n + 1] = [kind |-> "afk_events", date |-> -1, ok |-> TRUE]
            /\ CallsOf("afk_metrics") = 1..n
            /\ CallsOf("afk_events") = {n + 1}
    /\ FailedFetch =>
        /\ CallsOf("upload") = {}
        /\ wkAt = "done"
        /\ wkOut = Exit("aw_error")
        /\ ~wkFx[Len(wkFx)].ok

\* a run that uploaded after two per-day fetches and the events fetch
C30_Witness ==
    /\ wkAt = "done"
    /\ wkOut = Exit("none")
    /\ clampDays(wkIn.days) = MaxDays
    /\ Cardinality(CallsOf("afk_metrics")) = MaxDays
    /\ Cardinality(CallsOf("upload")) = 1
    /\ wkFx[Len(wkFx)].kind = "upload"

====
